---- MODULE Spec2Model ----
(***************************************************************************)
(* Model of the transformation layer of md-to-docx: the inline formatting  *)
(* tokenizer (processFormattedText / processFormattedTextForHeading), the  *)
(* bookmark sanitizer, the heading/TOC builder of modelToDocx and the      *)
(* image dimension resolver.                                               *)
(*                                                                         *)
(* Strings are sequences of one-character strings; positions are 0-based   *)
(* as in the source (At(s, j) is s[j]).                                    *)
(***************************************************************************)
EXTENDS Integers, Sequences, FiniteSets, TLC

VARIABLES
    \* processFormattedText / processFormattedTextForHeading
    line, variant, scan, pc,
    \* sanitizeForBookmarkId
    text, sanitized, sanPc,
    \* processImage
    fragment, fetchOk, widthHint, heightHint, intrinsicWidth, intrinsicHeight,
    outWidth, outHeight, paragraph, imgPc,
    \* modelToDocx
    model, idx, children, headings, maxSequenceId, now, docPc,
    \* parseToDocxOptions
    tocContent, finalDocChildren, numberingConfigs,
    \* processImage: the sniffing of the image header
    bytes, imageType, offset, intrinsic, sniffPc,
    \* convertMarkdownToDocx, parseToDocxOptions, validateInput
    entry, markdown, options, started, error, convPc,
    \* the style options: modelToDocx (defaultFont), processHeading
    style, headingLevel, headingStyle, stylePc

tokVars == <<line, variant, scan, pc>>

sanVars == <<text, sanitized, sanPc>>

imgVars == <<fragment, fetchOk, widthHint, heightHint, intrinsicWidth,
             intrinsicHeight, outWidth, outHeight, paragraph, imgPc>>

docVars == <<model, idx, children, headings, maxSequenceId, now, docPc,
             tocContent, finalDocChildren, numberingConfigs>>

sniffVars == <<bytes, imageType, offset, intrinsic, sniffPc>>

convVars == <<entry, markdown, options, started, error, convPc>>

styleVars == <<style, headingLevel, headingStyle, stylePc>>

vars == <<tokVars, sanVars, imgVars, docVars, sniffVars, convVars, styleVars>>

-----------------------------------------------------------------------------
(* Strings *)

At(s, j) == s[j + 1]

\* s.substring(a, b) for 0 <= a <= b <= s.length
Substring(s, a, b) == SubSeq(s, a + 1, b)

\* the backtick character (a backtick cannot be written in a string literal)
BT == "backtick"

WhiteSpace == {" "}

\* s.trim() is non-empty
TrimNonEmpty(s) == \E i \in 1..Len(s) : s[i] \notin WhiteSpace

RECURSIVE Flatten(_)
Flatten(ss) == IF ss = <<>> THEN <<>> ELSE Head(ss) \o Flatten(Tail(ss))

-----------------------------------------------------------------------------
(* Runs: new TextRun({text, bold, italics}), processInlineCode(text),      *)
(* new ExternalHyperlink({children: [TextRun], link})                      *)

TextRun(str, bold, italics) ==
    [kind |-> "text", value |-> str, bold |-> bold, italic |-> italics, link |-> <<>>]

processInlineCode(code) ==
    [kind |-> "code", value |-> code, bold |-> FALSE, italic |-> FALSE, link |-> <<>>]

\* mutant: the link run ignores the emphasis flags
ExternalHyperlink_Plain(linkText, bold, italics, linkUrl) ==
    [kind |-> "link", value |-> linkText, bold |-> FALSE, italic |-> FALSE, link |-> linkUrl]

ExternalHyperlink(linkText, bold, italics, linkUrl) ==
    [kind |-> "link", value |-> linkText, bold |-> bold, italic |-> italics, link |-> linkUrl]

\* the trailing run pushed when textRuns is empty: the heading variant sets bold
EmptyRun(v) == TextRun(<<>>, v = "heading", FALSE)

-----------------------------------------------------------------------------
(* processFormattedText (variant "body") and processFormattedTextForHeading *)
(* (variant "heading"): the scanner state and one operator per branch of    *)
(* the scan loop. Each Handle operator returns the state at the start of    *)
(* the next loop iteration (the loop's j++ included).                       *)

Variants == {"body", "heading"}

InitScan ==
    [j |-> 0, currentText |-> <<>>, isBold |-> FALSE, isItalic |-> FALSE,
     isInlineCode |-> FALSE, boldStart |-> -1, italicStart |-> -1,
     textRuns |-> <<>>]

\* if (currentText) { textRuns.push(new TextRun({text: currentText, bold: isBold, italics: isItalic})) }
Flush(st) ==
    IF st.currentText # <<>>
    THEN Append(st.textRuns, TextRun(st.currentText, st.isBold, st.isItalic))
    ELSE st.textRuns

\* the characters a backslash escapes
EscapableChars(v) ==
    IF v = "heading" THEN {"*", "\\"} ELSE {"*", BT, "\\", "[", "]"}

\* for (k = from; k < line.length; k++): skip an escaped character, stop at "]"
RECURSIVE FindCloseBracket(_, _)
FindCloseBracket(ln, k) ==
    IF k >= Len(ln) THEN -1
    ELSE IF At(ln, k) = "\\" /\ k + 1 < Len(ln) THEN FindCloseBracket(ln, k + 2)
    ELSE IF At(ln, k) = "]" THEN k
    ELSE FindCloseBracket(ln, k + 1)

\* for (k = from; k < line.length; k++): stop at ")"
RECURSIVE FindCloseParen(_, _)
FindCloseParen(ln, k) ==
    IF k >= Len(ln) THEN -1
    ELSE IF At(ln, k) = ")" THEN k
    ELSE FindCloseParen(ln, k + 1)

\* the lookahead at a "[" in position j: <<closeBracket, openParen, closeParen>>
LinkLookahead(ln, j) ==
    LET closeBracket == FindCloseBracket(ln, j + 1)
        found == closeBracket > j /\ closeBracket + 1 < Len(ln)
                 /\ At(ln, closeBracket + 1) = "("
        openParen == IF found THEN closeBracket + 1 ELSE -1
        closeParen == IF found THEN FindCloseParen(ln, openParen + 1) ELSE -1
    IN  <<closeBracket, openParen, closeParen>>

LinkComplete(ln, j) ==
    LET la == LinkLookahead(ln, j)
    IN  la[1] > j /\ la[2] > la[1] /\ la[3] > la[2]

IsTriple(ln, j) ==
    j + 2 < Len(ln) /\ At(ln, j) = "*" /\ At(ln, j + 1) = "*" /\ At(ln, j + 2) = "*"

IsDouble(ln, j) ==
    j + 1 < Len(ln) /\ At(ln, j) = "*" /\ At(ln, j + 1) = "*"

IsSingle(ln, j) ==
    /\ At(ln, j) = "*"
    /\ (j = 0 \/ At(ln, j - 1) # "*")
    /\ (j = Len(ln) - 1 \/ At(ln, j + 1) # "*")

\* which branch of the loop body is taken at position st.j (first match wins)
Rule(ln, st, v) ==
    LET j == st.j
    IN  IF At(ln, j) = "\\" /\ j + 1 < Len(ln)
        THEN (IF At(ln, j + 1) \in EscapableChars(v) THEN "escape" ELSE "backslash")
        ELSE IF v = "body" /\ ~st.isInlineCode /\ At(ln, j) = "[" /\ LinkComplete(ln, j)
        THEN "link"
        ELSE IF v = "body" /\ At(ln, j) = BT /\ ~st.isInlineCode THEN "codeOpen"
        ELSE IF v = "body" /\ At(ln, j) = BT /\ st.isInlineCode THEN "codeClose"
        ELSE IF v = "body" /\ st.isInlineCode THEN "codeText"
        ELSE IF IsTriple(ln, j) THEN "triple"
        ELSE IF IsDouble(ln, j) THEN "double"
        ELSE IF IsSingle(ln, j) THEN "single"
        ELSE "text"

\* currentText += nextChar; j++; continue
HandleEscape(ln, st) ==
    [st EXCEPT !.currentText = Append(@, At(ln, st.j + 1)), !.j = st.j + 2]

\* currentText += line[j]; continue
HandleText(ln, st) ==
    [st EXCEPT !.currentText = Append(@, At(ln, st.j)), !.j = st.j + 1]

\* mutant: the scan resumes after the "]" instead of after the ")"
HandleLink_ResumeAfterBracket(ln, st) ==
    LET la == LinkLookahead(ln, st.j)
        linkText == Substring(ln, st.j + 1, la[1])
        linkUrl == Substring(ln, la[2] + 1, la[3])
    IN  [st EXCEPT !.textRuns = Append(Flush(st),
                        ExternalHyperlink(linkText, st.isBold, st.isItalic, linkUrl)),
                   !.currentText = <<>>,
                   !.j = la[1] + 1]

HandleLink(ln, st) ==
    LET la == LinkLookahead(ln, st.j)
        linkText == Substring(ln, st.j + 1, la[1])
        linkUrl == Substring(ln, la[2] + 1, la[3])
    IN  [st EXCEPT !.textRuns = Append(Flush(st),
                        ExternalHyperlink(linkText, st.isBold, st.isItalic, linkUrl)),
                   !.currentText = <<>>,
                   !.j = la[3] + 1]

HandleCodeOpen(ln, st) ==
    [st EXCEPT !.textRuns = Flush(st), !.currentText = <<>>,
               !.isInlineCode = TRUE, !.j = st.j + 1]

\* mutant: the code text is pushed as an ordinary text run
HandleCodeClose_AsText(ln, st) ==
    [st EXCEPT !.textRuns = Flush(st), !.currentText = <<>>,
               !.isInlineCode = FALSE, !.j = st.j + 1]

HandleCodeClose(ln, st) ==
    [st EXCEPT !.textRuns = IF st.currentText # <<>>
                            THEN Append(@, processInlineCode(st.currentText))
                            ELSE @,
               !.currentText = <<>>,
               !.isInlineCode = FALSE, !.j = st.j + 1]

HandleTriple(ln, st) ==
    LET fresh == ~st.isBold /\ ~st.isItalic
    IN  [st EXCEPT !.textRuns = Flush(st), !.currentText = <<>>,
                   !.boldStart = IF fresh THEN st.j ELSE -1,
                   !.italicStart = IF fresh THEN st.j ELSE -1,
                   !.isBold = ~st.isBold,
                   !.isItalic = ~st.isItalic,
                   !.j = st.j + 3]

HandleDouble(ln, st) ==
    [st EXCEPT !.textRuns = Flush(st), !.currentText = <<>>,
               !.boldStart = IF ~st.isBold THEN st.j ELSE -1,
               !.isBold = ~st.isBold,
               !.j = st.j + 2]

HandleSingle(ln, st) ==
    [st EXCEPT !.textRuns = Flush(st), !.currentText = <<>>,
               !.italicStart = IF ~st.isItalic THEN st.j ELSE -1,
               !.isItalic = ~st.isItalic,
               !.j = st.j + 1]

\* one iteration of the for loop
Step(ln, st, v) ==
    LET r == Rule(ln, st, v)
    IN  CASE r = "escape"    -> HandleEscape(ln, st)
          [] r = "backslash" -> HandleText(ln, st)
          [] r = "link"      -> HandleLink(ln, st)
          [] r = "codeOpen"  -> HandleCodeOpen(ln, st)
          [] r = "codeClose" -> HandleCodeClose(ln, st)
          [] r = "codeText"  -> HandleText(ln, st)
          [] r = "triple"    -> HandleTriple(ln, st)
          [] r = "double"    -> HandleDouble(ln, st)
          [] r = "single"    -> HandleSingle(ln, st)
          [] OTHER           -> HandleText(ln, st)

\* mutant: the markers are put back but the flags are left set
RecoverMarkers_KeepFlags(st, v) ==
    LET together == /\ st.isBold /\ st.isItalic
                    /\ st.boldStart >= 0 /\ st.italicStart >= 0
                    /\ st.boldStart = st.italicStart
        boldBack == ~together /\ st.isBold /\ st.boldStart >= 0
        italicBack == ~together /\ st.isItalic /\ st.italicStart >= 0
        t1 == IF together THEN <<"*", "*", "*">> \o st.currentText
              ELSE IF boldBack THEN <<"*", "*">> \o st.currentText
              ELSE st.currentText
        t2 == IF italicBack THEN <<"*">> \o t1 ELSE t1
        t3 == IF v = "body" /\ st.isInlineCode THEN <<BT>> \o t2 ELSE t2
    IN  [st EXCEPT !.currentText = t3]

\* "Handle any remaining text": the unclosed markers are put back in front of
\* currentText and their flags cleared (only entered when currentText is non-empty)
RecoverMarkers(st, v) ==
    LET together == /\ st.isBold /\ st.isItalic
                    /\ st.boldStart >= 0 /\ st.italicStart >= 0
                    /\ st.boldStart = st.italicStart
        boldBack == ~together /\ st.isBold /\ st.boldStart >= 0
        italicBack == ~together /\ st.isItalic /\ st.italicStart >= 0
        t1 == IF together THEN <<"*", "*", "*">> \o st.currentText
              ELSE IF boldBack THEN <<"*", "*">> \o st.currentText
              ELSE st.currentText
        t2 == IF italicBack THEN <<"*">> \o t1 ELSE t1
        t3 == IF v = "body" /\ st.isInlineCode THEN <<BT>> \o t2 ELSE t2
    IN  [st EXCEPT !.currentText = t3,
                   !.isBold = st.isBold /\ ~together /\ ~boldBack,
                   !.isItalic = st.isItalic /\ ~together /\ ~italicBack]

\* mutant: no empty run is pushed when textRuns is empty
Finish_NoEmptyRun(st, v) ==
    LET rec == IF st.currentText # <<>> THEN RecoverMarkers(st, v) ELSE st
        runs == IF st.currentText # <<>> /\ TrimNonEmpty(rec.currentText)
                THEN Append(rec.textRuns,
                            TextRun(rec.currentText, rec.isBold, rec.isItalic))
                ELSE rec.textRuns
    IN  [rec EXCEPT !.textRuns = runs]

\* the code after the loop: recovery, the trailing run, the single empty run
Finish(st, v) ==
    LET rec == IF st.currentText # <<>> THEN RecoverMarkers(st, v) ELSE st
        runs == IF st.currentText # <<>> /\ TrimNonEmpty(rec.currentText)
                THEN Append(rec.textRuns,
                            TextRun(rec.currentText, rec.isBold, rec.isItalic))
                ELSE rec.textRuns
    IN  [rec EXCEPT !.textRuns = IF runs = <<>> THEN <<EmptyRun(v)>> ELSE runs]

RECURSIVE RunScan(_, _, _)
RunScan(ln, st, v) ==
    IF st.j < Len(ln) THEN RunScan(ln, Step(ln, st, v), v) ELSE st

\* the value the function returns
Tokenize(ln, v) == Finish(RunScan(ln, InitScan, v), v).textRuns

processFormattedText(ln) == Tokenize(ln, "body")

processFormattedTextForHeading(ln) == Tokenize(ln, "heading")

-----------------------------------------------------------------------------
(* sanitizeForBookmarkId                                                   *)

\* [a-zA-Z]
Letters ==
    { "a", "b", "c", "d", "e", "f", "g", "h", "i", "j", "k", "l", "m",
      "n", "o", "p", "q", "r", "s", "t", "u", "v", "w", "x", "y", "z",
      "A", "B", "C", "D", "E", "F", "G", "H", "I", "J", "K", "L", "M",
      "N", "O", "P", "Q", "R", "S", "T", "U", "V", "W", "X", "Y", "Z" }

\* [0-9]
Digits == {"0", "1", "2", "3", "4", "5", "6", "7", "8", "9"}

\* \s
RegexSpace == {" ", "\t", "\n"}

RECURSIVE SelectChars(_, _)
SelectChars(s, keep) ==
    IF s = <<>> THEN <<>>
    ELSE IF Head(s) \in keep THEN <<Head(s)>> \o SelectChars(Tail(s), keep)
    ELSE SelectChars(Tail(s), keep)

\* text.replace(/[^a-zA-Z0-9_\s]/g, "")
StripOthers(s) == SelectChars(s, Letters \cup Digits \cup {"_"} \cup RegexSpace)

\* .replace(/\s+/g, "_"): every maximal run of whitespace becomes one "_"
RECURSIVE SpacesToUnderscore(_)
SpacesToUnderscore(s) ==
    IF s = <<>> THEN <<>>
    ELSE IF Head(s) \in RegexSpace
         THEN IF Len(s) > 1 /\ s[2] \in RegexSpace
              THEN SpacesToUnderscore(Tail(s))
              ELSE <<"_">> \o SpacesToUnderscore(Tail(s))
    ELSE <<Head(s)>> \o SpacesToUnderscore(Tail(s))

\* mutant: the underscore prefix is never added
EnsureStart_Never(s) == s

\* if (!/^[a-zA-Z_]/.test(sanitized)) sanitized = "_" + sanitized
EnsureStart(s) ==
    IF s # <<>> /\ s[1] \in Letters \cup {"_"} THEN s ELSE <<"_">> \o s

BookmarkMaxLen == 40

\* sanitized.substring(0, 40)
Truncate(s) == SubSeq(s, 1, IF Len(s) < BookmarkMaxLen THEN Len(s) ELSE BookmarkMaxLen)

sanitizeForBookmarkId(s) == Truncate(EnsureStart(SpacesToUnderscore(StripOthers(s))))

-----------------------------------------------------------------------------
(* processImage: the hints of the URL fragment, computeImageDimensions and *)
(* the copy of its logic inside processImage                               *)

\* a number that is undefined (every defined number of the model is >= 0)
Undefined == -1

\* JavaScript truthiness of a number | undefined
Truthy(x) == x # Undefined /\ x # 0

DigitChars == <<"0", "1", "2", "3", "4", "5", "6", "7", "8", "9">>

DigitValue(c) == (CHOOSE i \in 1..10 : DigitChars[i] = c) - 1

\* /^\d+$/.test(s)
AllDigits(s) == s # <<>> /\ \A i \in 1..Len(s) : s[i] \in Digits

\* parseInt(s, 10) of a string of digits
RECURSIVE ParseInt(_)
ParseInt(s) ==
    IF s = <<>> THEN 0
    ELSE 10 * ParseInt(SubSeq(s, 1, Len(s) - 1)) + DigitValue(s[Len(s)])

\* String(n) for n >= 0
RECURSIVE ToDigits(_)
ToDigits(n) ==
    IF n < 10 THEN <<DigitChars[n + 1]>>
    ELSE ToDigits(n \div 10) \o <<DigitChars[(n % 10) + 1]>>

\* s.indexOf(ch) (0-based, -1 when absent)
IndexOf(s, ch) ==
    IF \E i \in 1..Len(s) : s[i] = ch
    THEN (CHOOSE i \in 1..Len(s) : s[i] = ch /\ \A k \in 1..(i - 1) : s[k] # ch) - 1
    ELSE -1

\* fragment.match(/^(\d+)x(\d+)$/): <<w, h>>, or <<>> when there is no match
MatchWxH(f) ==
    LET x == IndexOf(f, "x")
    IN  IF x >= 0 /\ AllDigits(Substring(f, 0, x)) /\ AllDigits(Substring(f, x + 1, Len(f)))
        THEN <<Substring(f, 0, x), Substring(f, x + 1, Len(f))>>
        ELSE <<>>

\* fragment.replace(/&amp;/g, "&")
RECURSIVE ReplaceAmp(_)
ReplaceAmp(f) ==
    IF f = <<>> THEN <<>>
    ELSE IF Len(f) >= 5 /\ SubSeq(f, 1, 5) = <<"&", "a", "m", "p", ";">>
         THEN <<"&">> \o ReplaceAmp(SubSeq(f, 6, Len(f)))
    ELSE <<Head(f)>> \o ReplaceAmp(Tail(f))

\* the "&"-separated parts of a query string
RECURSIVE SplitAmp(_)
SplitAmp(q) ==
    LET a == IndexOf(q, "&")
    IN  IF a < 0 THEN <<q>>
        ELSE <<Substring(q, 0, a)>> \o SplitAmp(Substring(q, a + 1, Len(q)))

PairKey(kv) == IF IndexOf(kv, "=") < 0 THEN kv ELSE Substring(kv, 0, IndexOf(kv, "="))

PairValue(kv) ==
    IF IndexOf(kv, "=") < 0 THEN <<>> ELSE Substring(kv, IndexOf(kv, "=") + 1, Len(kv))

\* new URLSearchParams(q).get(key) || "": the value of the first pair with
\* that key; an absent key and an empty value are both falsy
ParamsGet(q, key) ==
    LET parts == SplitAmp(q)
        hits == {i \in 1..Len(parts) : parts[i] # <<>> /\ PairKey(parts[i]) = key}
    IN  IF hits = {} THEN <<>>
        ELSE PairValue(parts[CHOOSE i \in hits : \A k \in hits : i <= k])

\* the hints of a fragment: <<widthHint, heightHint>>
ParseHints(f) ==
    LET wxh == MatchWxH(f)
        q == ReplaceAmp(f)
        w == IF ParamsGet(q, <<"w">>) # <<>> THEN ParamsGet(q, <<"w">>)
             ELSE ParamsGet(q, <<"w", "i", "d", "t", "h">>)
        h == IF ParamsGet(q, <<"h">>) # <<>> THEN ParamsGet(q, <<"h">>)
             ELSE ParamsGet(q, <<"h", "e", "i", "g", "h", "t">>)
    IN  IF wxh # <<>> THEN <<ParseInt(wxh[1]), ParseInt(wxh[2])>>
        ELSE << IF AllDigits(w) THEN ParseInt(w) ELSE Undefined,
                IF AllDigits(h) THEN ParseInt(h) ELSE Undefined >>

\* Math.round(n / d) for n >= 0, d > 0, in exact arithmetic
RoundDiv(n, d) == (2 * n + d) \div (2 * d)

Max(a, b) == IF a >= b THEN a ELSE b

Min(a, b) == IF a <= b THEN a ELSE b

MaxIntrinsicWidth == 400

DefaultWidth == 200

\* mutant: the intrinsic width is not capped
computeImageDimensions_NoCap(wH, hH, iw, ih) ==
    LET aspect == Truthy(iw) /\ Truthy(ih)
    IN  IF Truthy(wH) /\ Truthy(hH)
        THEN [width |-> wH, height |-> hH]
        ELSE IF Truthy(wH) /\ aspect
        THEN [width |-> wH, height |-> Max(1, RoundDiv(wH * ih, iw))]
        ELSE IF Truthy(hH) /\ aspect
        THEN [width |-> Max(1, RoundDiv(hH * iw, ih)), height |-> hH]
        ELSE IF Truthy(iw)
        THEN [width |-> iw, height |-> IF aspect THEN Max(1, ih) ELSE Undefined]
        ELSE [width |-> DefaultWidth, height |-> Undefined]

\* computeImageDimensions(widthHint, heightHint, intrinsicWidth, intrinsicHeight);
\* aspect = iw / ih, so x / aspect = x * ih / iw and x * aspect = x * iw / ih
computeImageDimensions(wH, hH, iw, ih) ==
    LET aspect == Truthy(iw) /\ Truthy(ih)
    IN  IF Truthy(wH) /\ Truthy(hH)
        THEN [width |-> wH, height |-> hH]
        ELSE IF Truthy(wH) /\ aspect
        THEN [width |-> wH, height |-> Max(1, RoundDiv(wH * ih, iw))]
        ELSE IF Truthy(hH) /\ aspect
        THEN [width |-> Max(1, RoundDiv(hH * iw, ih)), height |-> hH]
        ELSE IF Truthy(iw)
        THEN [width |-> Min(iw, MaxIntrinsicWidth),
              height |-> IF aspect
                         THEN Max(1, RoundDiv(Min(iw, MaxIntrinsicWidth) * ih, iw))
                         ELSE Undefined]
        ELSE [width |-> DefaultWidth, height |-> Undefined]

\* mutant: a width hint with a known aspect is tried before the two hints
ResolveDimensions_AspectFirst(wH, hH, iw, ih) ==
    LET aspect == Truthy(iw) /\ Truthy(ih)
    IN  IF Truthy(wH) /\ aspect
        THEN [width |-> wH, height |-> Max(1, RoundDiv(wH * ih, iw))]
        ELSE IF Truthy(wH) /\ Truthy(hH)
        THEN [width |-> wH, height |-> hH]
        ELSE IF Truthy(hH) /\ aspect
        THEN [width |-> Max(1, RoundDiv(hH * iw, ih)), height |-> hH]
        ELSE IF Truthy(iw)
        THEN [width |-> Min(iw, MaxIntrinsicWidth),
              height |-> IF aspect
                         THEN Max(1, RoundDiv(Min(iw, MaxIntrinsicWidth) * ih, iw))
                         ELSE Undefined]
        ELSE [width |-> DefaultWidth, height |-> Undefined]

\* the same decision written out again inside processImage
ResolveDimensions(wH, hH, iw, ih) ==
    LET aspect == Truthy(iw) /\ Truthy(ih)
    IN  IF Truthy(wH) /\ Truthy(hH)
        THEN [width |-> wH, height |-> hH]
        ELSE IF Truthy(wH) /\ aspect
        THEN [width |-> wH, height |-> Max(1, RoundDiv(wH * ih, iw))]
        ELSE IF Truthy(hH) /\ aspect
        THEN [width |-> Max(1, RoundDiv(hH * iw, ih)), height |-> hH]
        ELSE IF Truthy(iw)
        THEN [width |-> Min(iw, MaxIntrinsicWidth),
              height |-> IF aspect
                         THEN Max(1, RoundDiv(Min(iw, MaxIntrinsicWidth) * ih, iw))
                         ELSE Undefined]
        ELSE [width |-> DefaultWidth, height |-> Undefined]

FinalHeight_NoDefault(w, h) == h

\* outHeight || (outWidth ? Math.round(outWidth * 0.75) : 200)
FinalHeight(w, h) ==
    IF Truthy(h) THEN h
    ELSE IF Truthy(w) THEN RoundDiv(3 * w, 4)
    ELSE 200

\* the paragraphs processImage returns
ImageParagraph(w, h) == [type |-> "image", width |-> w, height |-> h]

ImagePlaceholder == [type |-> "imageError", width |-> Undefined, height |-> Undefined]

-----------------------------------------------------------------------------
(* modelToDocx, renderBlockNode: the re-encoding of inline nodes into marker *)
(* text. An inline node c has c.code = (kind = "code") and c.link set (a     *)
(* non-empty string is truthy) when kind = "link".                           *)

EncodeInline(c) ==
    IF c.kind = "code" THEN <<BT>> \o c.value \o <<BT>>
    ELSE IF c.bold /\ c.italic THEN <<"*", "*", "*">> \o c.value \o <<"*", "*", "*">>
    ELSE IF c.bold THEN <<"*", "*">> \o c.value \o <<"*", "*">>
    ELSE IF c.italic THEN <<"*">> \o c.value \o <<"*">>
    ELSE IF c.kind = "link" /\ c.link # <<>>
         THEN <<"[">> \o c.value \o <<"]", "(">> \o c.link \o <<")">>
    ELSE c.value

\* node.children.map(...).join("")
EncodeInlines(inlines) ==
    Flatten([i \in 1..Len(inlines) |-> EncodeInline(inlines[i])])

-----------------------------------------------------------------------------
(* Inputs of the tokenizer: every concatenation of at most MaxChunks chunks, *)
(* and the sample lines.                                                     *)

MaxChunks == 3

Chunks ==
    { <<"a">>, <<" ">>, <<"*">>, <<"*", "*">>, <<"*", "*", "*">>, <<BT>>,
      <<"\\">>, <<"[">>, <<"]">>, <<"[", "t", "]", "(", "u", ")">> }

\* "**bold** and *italic* and `code` and [t](u)"
SampleMixed ==
    <<"*", "*", "b", "o", "l", "d", "*", "*", " ", "a", "n", "d", " ",
      "*", "i", "t", "a", "l", "i", "c", "*", " ", "a", "n", "d", " ",
      BT, "c", "o", "d", "e", BT, " ", "a", "n", "d", " ",
      "[", "t", "]", "(", "u", ")">>

\* "**unterminated"
SampleUnterminated ==
    <<"*", "*", "u", "n", "t", "e", "r", "m", "i", "n", "a", "t", "e", "d">>

\* "[t](u(v))": the URL holds a ")"
SampleParenUrl == <<"[", "t", "]", "(", "u", "(", "v", ")", ")">>

\* "[a]b](u)": the link text holds a "]"
SampleBracketText == <<"[", "a", "]", "b", "]", "(", "u", ")">>

\* "**`c`[t](u)**": a code span and a link inside a bold region
SampleBoldCodeLink ==
    <<"*", "*", BT, "c", BT, "[", "t", "]", "(", "u", ")", "*", "*">>

Samples ==
    {SampleMixed, SampleUnterminated, SampleParenUrl, SampleBracketText,
     SampleBoldCodeLink}

ChunkSeqs == UNION {[1..k -> Chunks] : k \in 0..MaxChunks}

Lines == {Flatten(cs) : cs \in ChunkSeqs} \cup Samples

-----------------------------------------------------------------------------
(* The tokenizer as a state machine: one action per branch of the loop.    *)

\* the other components are not running
SanIdle == text = <<>> /\ sanitized = <<>> /\ sanPc = "idle"

NoParagraph == [type |-> "none", width |-> Undefined, height |-> Undefined]

ImgIdle ==
    /\ fragment = <<>> /\ fetchOk = TRUE
    /\ widthHint = Undefined /\ heightHint = Undefined
    /\ intrinsicWidth = Undefined /\ intrinsicHeight = Undefined
    /\ outWidth = Undefined /\ outHeight = Undefined
    /\ paragraph = NoParagraph /\ imgPc = "idle"

DocIdle ==
    /\ model = <<>> /\ idx = 0 /\ children = <<>> /\ headings = <<>>
    /\ maxSequenceId = 0 /\ now = 0 /\ docPc = "idle"
    /\ tocContent = <<>> /\ finalDocChildren = <<>> /\ numberingConfigs = <<>>

NoValue == <<>>

SniffIdle ==
    /\ bytes = <<>> /\ imageType = "png" /\ offset = 0
    /\ intrinsic = [width |-> NoValue, height |-> NoValue] /\ sniffPc = "idle"

NoError == [name |-> "none", message |-> <<>>, originalError |-> <<>>]

NoOptions ==
    [hasStyle |-> FALSE, titleSize |-> Undefined, headingSpacing |-> Undefined,
     paragraphSpacing |-> Undefined, lineSpacing |-> Undefined]

ConvIdle ==
    /\ entry = "none" /\ markdown = [isString |-> TRUE, truthy |-> FALSE]
    /\ options = NoOptions /\ started = FALSE /\ error = NoError
    /\ convPc = "idle"

\* a string option that is not set
Unset == "undefined"

NoHeadingStyle == [font |-> Unset, size |-> Undefined, alignment |-> Unset]

StyleIdle ==
    /\ style = <<>> /\ headingLevel = 0 /\ headingStyle = NoHeadingStyle
    /\ stylePc = "idle"

Init ==
    /\ line \in Lines
    /\ variant \in Variants
    /\ scan = InitScan
    /\ pc = "scan"
    /\ SanIdle
    /\ ImgIdle
    /\ DocIdle
    /\ SniffIdle
    /\ ConvIdle
    /\ StyleIdle

InLoop(r) ==
    pc = "scan" /\ scan.j < Len(line) /\ Rule(line, scan, variant) = r

ScanEscape ==
    /\ InLoop("escape")
    /\ scan' = HandleEscape(line, scan)
    /\ UNCHANGED <<line, variant, pc, sanVars, imgVars, docVars, sniffVars, convVars, styleVars>>

ScanBackslash ==
    /\ InLoop("backslash")
    /\ scan' = HandleText(line, scan)
    /\ UNCHANGED <<line, variant, pc, sanVars, imgVars, docVars, sniffVars, convVars, styleVars>>

ScanLink ==
    /\ InLoop("link")
    /\ scan' = HandleLink(line, scan)
    /\ UNCHANGED <<line, variant, pc, sanVars, imgVars, docVars, sniffVars, convVars, styleVars>>

ScanCodeOpen ==
    /\ InLoop("codeOpen")
    /\ scan' = HandleCodeOpen(line, scan)
    /\ UNCHANGED <<line, variant, pc, sanVars, imgVars, docVars, sniffVars, convVars, styleVars>>

ScanCodeClose ==
    /\ InLoop("codeClose")
    /\ scan' = HandleCodeClose(line, scan)
    /\ UNCHANGED <<line, variant, pc, sanVars, imgVars, docVars, sniffVars, convVars, styleVars>>

ScanCodeText ==
    /\ InLoop("codeText")
    /\ scan' = HandleText(line, scan)
    /\ UNCHANGED <<line, variant, pc, sanVars, imgVars, docVars, sniffVars, convVars, styleVars>>

ScanTriple ==
    /\ InLoop("triple")
    /\ scan' = HandleTriple(line, scan)
    /\ UNCHANGED <<line, variant, pc, sanVars, imgVars, docVars, sniffVars, convVars, styleVars>>

ScanDouble ==
    /\ InLoop("double")
    /\ scan' = HandleDouble(line, scan)
    /\ UNCHANGED <<line, variant, pc, sanVars, imgVars, docVars, sniffVars, convVars, styleVars>>

ScanSingle ==
    /\ InLoop("single")
    /\ scan' = HandleSingle(line, scan)
    /\ UNCHANGED <<line, variant, pc, sanVars, imgVars, docVars, sniffVars, convVars, styleVars>>

ScanText ==
    /\ InLoop("text")
    /\ scan' = HandleText(line, scan)
    /\ UNCHANGED <<line, variant, pc, sanVars, imgVars, docVars, sniffVars, convVars, styleVars>>

EndOfScan ==
    /\ pc = "scan"
    /\ scan.j >= Len(line)
    /\ scan' = Finish(scan, variant)
    /\ pc' = "done"
    /\ UNCHANGED <<line, variant, sanVars, imgVars, docVars, sniffVars, convVars, styleVars>>

Next ==
    \/ ScanEscape
    \/ ScanBackslash
    \/ ScanLink
    \/ ScanCodeOpen
    \/ ScanCodeClose
    \/ ScanCodeText
    \/ ScanTriple
    \/ ScanDouble
    \/ ScanSingle
    \/ ScanText
    \/ EndOfScan

Spec == Init /\ [][Next]_vars

-----------------------------------------------------------------------------
(* sanitizeForBookmarkId as a state machine: one action per statement.     *)

MaxTextLen == 3

TextChars == {"a", "Z", "7", "_", " ", "\t", "!", "-"}

\* the lengths of the tail of letters appended to the short texts
TailLens == {0, 38, 40}

LongTail(n) == [i \in 1..n |-> "x"]

\* "Hello, World! 2024"
SampleHello ==
    <<"H", "e", "l", "l", "o", ",", " ", "W", "o", "r", "l", "d", "!", " ",
      "2", "0", "2", "4">>

Texts ==
    { t \o LongTail(n) :
        t \in UNION {[1..k -> TextChars] : k \in 0..MaxTextLen}, n \in TailLens }
    \cup {SampleHello}

TokIdle == line = <<>> /\ variant = "body" /\ scan = InitScan /\ pc = "idle"

InitSanitize ==
    /\ text \in Texts
    /\ sanitized = <<>>
    /\ sanPc = "replace"
    /\ TokIdle
    /\ ImgIdle
    /\ DocIdle
    /\ SniffIdle
    /\ ConvIdle
    /\ StyleIdle

SanReplace ==
    /\ sanPc = "replace"
    /\ sanitized' = SpacesToUnderscore(StripOthers(text))
    /\ sanPc' = "start"
    /\ UNCHANGED <<text, tokVars, imgVars, docVars, sniffVars, convVars, styleVars>>

SanEnsureStart ==
    /\ sanPc = "start"
    /\ sanitized' = EnsureStart(sanitized)
    /\ sanPc' = "truncate"
    /\ UNCHANGED <<text, tokVars, imgVars, docVars, sniffVars, convVars, styleVars>>

SanReturn ==
    /\ sanPc = "truncate"
    /\ sanitized' = Truncate(sanitized)
    /\ sanPc' = "done"
    /\ UNCHANGED <<text, tokVars, imgVars, docVars, sniffVars, convVars, styleVars>>

NextSanitize ==
    \/ SanReplace
    \/ SanEnsureStart
    \/ SanReturn

SpecSanitize == InitSanitize /\ [][NextSanitize]_vars

-----------------------------------------------------------------------------
(* processImage as a state machine, and direct calls of the exported       *)
(* computeImageDimensions.                                                 *)

MaxHint == 1

MaxIntrinsic == 1

HintValues == 0..MaxHint \cup {100, 300}

IntrinsicValues == 0..MaxIntrinsic \cup {100, 200, 1000}

HintTexts == {ToDigits(n) : n \in HintValues} \cup {<<"0", "7">>}

\* the text after "#" in the image URL
Fragments ==
    {<<>>, <<"a">>}
    \cup {w \o <<"x">> \o h : w \in HintTexts, h \in HintTexts}
    \cup {<<"w", "=">> \o w \o <<"&", "h", "=">> \o h : w \in HintTexts, h \in HintTexts}
    \cup {<<"w", "=">> \o w \o <<"&", "a", "m", "p", ";", "h", "=">> \o h :
            w \in HintTexts, h \in HintTexts}
    \cup {<<"w", "i", "d", "t", "h", "=">> \o w
            \o <<"&", "h", "e", "i", "g", "h", "t", "=">> \o h :
            w \in HintTexts, h \in HintTexts}
    \cup {<<"w", "=">> \o w : w \in HintTexts}
    \cup {<<"h", "=">> \o h : h \in HintTexts}

\* the header sniffers set both intrinsic dimensions or none
SniffedPairs ==
    {<<Undefined, Undefined>>} \cup (IntrinsicValues \X IntrinsicValues)

OptHint == HintValues \cup {Undefined}

OptIntrinsic == IntrinsicValues \cup {Undefined}

InitImage ==
    /\ \/ /\ imgPc = "hints"
          /\ fragment \in Fragments
          /\ fetchOk \in BOOLEAN
          /\ widthHint = Undefined /\ heightHint = Undefined
          /\ intrinsicWidth = Undefined /\ intrinsicHeight = Undefined
       \/ /\ imgPc = "call"
          /\ fragment = <<>>
          /\ fetchOk = TRUE
          /\ widthHint \in OptHint /\ heightHint \in OptHint
          /\ intrinsicWidth \in OptIntrinsic /\ intrinsicHeight \in OptIntrinsic
    /\ outWidth = Undefined /\ outHeight = Undefined
    /\ paragraph = NoParagraph
    /\ TokIdle
    /\ SanIdle
    /\ DocIdle
    /\ SniffIdle
    /\ ConvIdle
    /\ StyleIdle

\* a call of computeImageDimensions with the four arguments
CallCompute ==
    /\ imgPc = "call"
    /\ LET r == computeImageDimensions(widthHint, heightHint,
                                       intrinsicWidth, intrinsicHeight)
       IN  outWidth' = r.width /\ outHeight' = r.height
    /\ imgPc' = "returned"
    /\ UNCHANGED <<fragment, fetchOk, widthHint, heightHint, intrinsicWidth,
                   intrinsicHeight, paragraph, tokVars, sanVars, docVars, sniffVars, convVars, styleVars>>

ImgParseHints ==
    /\ imgPc = "hints"
    /\ widthHint' = ParseHints(fragment)[1]
    /\ heightHint' = ParseHints(fragment)[2]
    /\ imgPc' = "fetch"
    /\ UNCHANGED <<fragment, fetchOk, intrinsicWidth, intrinsicHeight,
                   outWidth, outHeight, paragraph, tokVars, sanVars, docVars, sniffVars, convVars, styleVars>>

\* the data URL is decoded or the fetch succeeds, with a non-empty payload
ImgFetch ==
    /\ imgPc = "fetch"
    /\ fetchOk
    /\ imgPc' = "sniff"
    /\ UNCHANGED <<fragment, fetchOk, widthHint, heightHint, intrinsicWidth,
                   intrinsicHeight, outWidth, outHeight, paragraph, tokVars, sanVars, docVars, sniffVars, convVars, styleVars>>

\* bad data URL, failed fetch or empty payload: the catch block returns the
\* placeholder paragraph
ImgFetchFail ==
    /\ imgPc = "fetch"
    /\ ~fetchOk
    /\ paragraph' = ImagePlaceholder
    /\ imgPc' = "done"
    /\ UNCHANGED <<fragment, fetchOk, widthHint, heightHint, intrinsicWidth,
                   intrinsicHeight, outWidth, outHeight, tokVars, sanVars, docVars, sniffVars, convVars, styleVars>>

\* the header of the payload gives both intrinsic dimensions or none
ImgSniff ==
    /\ imgPc = "sniff"
    /\ \E d \in SniffedPairs :
          intrinsicWidth' = d[1] /\ intrinsicHeight' = d[2]
    /\ imgPc' = "resolve"
    /\ UNCHANGED <<fragment, fetchOk, widthHint, heightHint,
                   outWidth, outHeight, paragraph, tokVars, sanVars, docVars, sniffVars, convVars, styleVars>>

ImgResolve ==
    /\ imgPc = "resolve"
    /\ LET r == ResolveDimensions(widthHint, heightHint,
                                  intrinsicWidth, intrinsicHeight)
       IN  outWidth' = r.width /\ outHeight' = r.height
    /\ imgPc' = "emit"
    /\ UNCHANGED <<fragment, fetchOk, widthHint, heightHint, intrinsicWidth,
                   intrinsicHeight, paragraph, tokVars, sanVars, docVars, sniffVars, convVars, styleVars>>

ImgEmit ==
    /\ imgPc = "emit"
    /\ paragraph' = ImageParagraph(outWidth, FinalHeight(outWidth, outHeight))
    /\ imgPc' = "done"
    /\ UNCHANGED <<fragment, fetchOk, widthHint, heightHint, intrinsicWidth,
                   intrinsicHeight, outWidth, outHeight, tokVars, sanVars, docVars, sniffVars, convVars, styleVars>>

NextImage ==
    \/ CallCompute
    \/ ImgParseHints
    \/ ImgFetch
    \/ ImgFetchFail
    \/ ImgSniff
    \/ ImgResolve
    \/ ImgEmit

SpecImage == InitImage /\ [][NextImage]_vars

-----------------------------------------------------------------------------
(* modelToDocx: the walk of the document model                              *)

\* a block node of the model; inl holds the inline children of a heading or
\* paragraph, children the block children of a list, list item or blockquote
Node(type, level, inl, ordered, sequenceId, kids, ok) ==
    [type |-> type, level |-> level, inl |-> inl, ordered |-> ordered,
     sequenceId |-> sequenceId, children |-> kids, ok |-> ok]

\* an output block: the paragraph's kind, the id of its bookmark, its
\* heading or list level, its numbering reference and its runs
Para(type, bookmarkId, level, numbered, reference, runs) ==
    [type |-> type, bookmarkId |-> bookmarkId, level |-> level,
     numbered |-> numbered, reference |-> reference, runs |-> runs]

\* "#".repeat(n)
RECURSIVE Repeat(_, _)
Repeat(ch, n) == IF n = 0 THEN <<>> ELSE <<ch>> \o Repeat(ch, n - 1)

\* line.replace(new RegExp("^#{level} "), "")
StripHeadingPrefix(ln, level) ==
    IF /\ Len(ln) >= level + 1
       /\ \A i \in 1..level : ln[i] = "#"
       /\ ln[level + 1] = " "
    THEN SubSeq(ln, level + 2, Len(ln))
    ELSE ln

\* .replace(/\*\*/g, "").replace(/\*/g, "")
RemoveStars(s) == SelectSeq(s, LAMBDA ch : ch # "*")

TocPrefix == <<"_", "T", "o", "c", "_">>

\* "_Toc_" + sanitizeForBookmarkId(cleanTextForBookmark) + "_" + Date.now()
BookmarkId(headingText, time) ==
    TocPrefix \o sanitizeForBookmarkId(RemoveStars(headingText))
        \o <<"_">> \o ToDigits(time)

processHeading(ln, level, time) ==
    LET headingText == StripHeadingPrefix(ln, level)
        bookmarkId  == BookmarkId(headingText, time)
    IN  [paragraph  |-> Para("heading", bookmarkId, level, FALSE, <<>>,
                             processFormattedTextForHeading(headingText)),
         bookmarkId |-> bookmarkId]

processParagraph(str) ==
    Para("paragraph", <<>>, 0, FALSE, <<>>, processFormattedText(str))

\* config.sequenceId || 1
OrOne(sequenceId) == IF Truthy(sequenceId) THEN sequenceId ELSE 1

\* "numbered-list-" + n
NumberingReference(n) == <<"numbered-list-">> \o ToDigits(n)

processListItem(str, isNumbered, sequenceId, level) ==
    Para("listItem", <<>>, level, isNumbered,
         IF isNumbered THEN NumberingReference(OrOne(sequenceId)) ELSE <<>>,
         processFormattedText(str))

processBlockquote(str) ==
    Para("blockquote", <<>>, 0, FALSE, <<>>, <<TextRun(str, FALSE, TRUE)>>)

\* processCodeBlock, processTable, processComment, the page break and the
\* TOC placeholder: one block of that kind
OtherBlock(type) == Para(type, <<>>, 0, FALSE, <<>>, <<>>)

\* item instanceof Paragraph
IsParagraph(p) == p.type # "table"

\* strs.join("\n")
RECURSIVE JoinLines(_)
JoinLines(strs) ==
    IF strs = <<>> THEN <<>>
    ELSE IF Len(strs) = 1 THEN Head(strs)
    ELSE Head(strs) \o <<"\n">> \o JoinLines(Tail(strs))

\* child.children.map((c) => c.value).join("")
PlainInlines(inlines) == Flatten([i \in 1..Len(inlines) |-> inlines[i].value])

\* the text of a blockquote: the paragraphs' plain text, "" for any other child
QuoteText(kids) ==
    JoinLines([i \in 1..Len(kids) |->
        IF kids[i].type = "paragraph" THEN PlainInlines(kids[i].inl) ELSE <<>>])

\* Date.now(): the clock advances by the next tick and is read
ReadClock(acc) == [acc EXCEPT !.now = @ + Head(acc.ticks), !.ticks = Tail(@)]

\* The closure state of the walk is threaded through the render functions:
\* acc = [headings, maxSequenceId, now, ticks]; each returns the blocks it
\* produces and the closure state it leaves.
RECURSIVE renderBlockNode(_, _, _)
RECURSIVE renderList(_, _, _)
RECURSIVE RenderItems(_, _, _, _, _)
RECURSIVE renderListItem(_, _, _, _, _)
RECURSIVE RenderItemChildren(_, _, _, _, _)

\* paragraphs.push(...more)
PushAll(first, rest) == [out |-> first \o rest.out, acc |-> rest.acc]

\* headings.push({text, level, bookmarkId}); return [paragraph]
PushHeading(acc, headingText, level, ph) ==
    [out |-> <<ph.paragraph>>,
     acc |-> [acc EXCEPT !.headings =
                Append(@, [text |-> headingText, level |-> level,
                           bookmarkId |-> ph.bookmarkId])]]

\* the heading case, once Date.now() has been read
RenderHeading(node, headingText, acc) ==
    PushHeading(acc, headingText, node.level,
                processHeading(Repeat("#", node.level) \o <<" ">> \o headingText,
                               node.level, acc.now))

renderBlockNode(node, listLevel, acc) ==
    CASE node.type = "heading" ->
            RenderHeading(node, EncodeInlines(node.inl), ReadClock(acc))
      [] node.type = "paragraph" ->
            [out |-> <<processParagraph(EncodeInlines(node.inl))>>, acc |-> acc]
      [] node.type = "list" ->
            renderList(node, listLevel, acc)
      [] node.type = "blockquote" ->
            [out |-> <<processBlockquote(QuoteText(node.children))>>, acc |-> acc]
      [] node.type \in {"codeBlock", "table", "comment", "pageBreak",
                        "tocPlaceholder"} ->
            [out |-> <<OtherBlock(node.type)>>, acc |-> acc]
      \* an image below the top level, and any other node type
      [] OTHER ->
            [out |-> <<>>, acc |-> acc]

\* if (list.sequenceId && list.sequenceId > maxSequenceId)
TrackSequenceId(list, acc) ==
    IF Truthy(list.sequenceId) /\ list.sequenceId > acc.maxSequenceId
    THEN [acc EXCEPT !.maxSequenceId = list.sequenceId]
    ELSE acc

renderList(list, currentLevel, acc) ==
    RenderItems(list.children, list.ordered, currentLevel, list.sequenceId,
                TrackSequenceId(list, acc))

\* the items after one whose rendering gave r
RestOfItems(r, items, isOrdered, level, sequenceId) ==
    PushAll(r.out, RenderItems(items, isOrdered, level, sequenceId, r.acc))

\* for (const item of list.children)
RenderItems(items, isOrdered, level, sequenceId, acc) ==
    IF items = <<>> THEN [out |-> <<>>, acc |-> acc]
    ELSE RestOfItems(renderListItem(Head(items), isOrdered, level, sequenceId, acc),
                     Tail(items), isOrdered, level, sequenceId)

\* if (paragraphs.length === 0): an empty list item
OrEmptyItem(r, isOrdered, level, sequenceId) ==
    IF r.out = <<>>
    THEN [out |-> <<processListItem(<<>>, isOrdered, OrOne(sequenceId), level)>>,
          acc |-> r.acc]
    ELSE r

renderListItem(item, isOrdered, level, sequenceId, acc) ==
    OrEmptyItem(RenderItemChildren(item.children, isOrdered, level, sequenceId, acc),
                isOrdered, level, sequenceId)

\* Filter out Tables
OnlyParagraphs(b) == [out |-> SelectSeq(b.out, IsParagraph), acc |-> b.acc]

\* the children after one whose rendering gave r
RestOfChildren(r, kids, isOrdered, level, sequenceId) ==
    PushAll(r.out, RenderItemChildren(kids, isOrdered, level, sequenceId, r.acc))

\* one child of a list item
RenderItemChild(child, isOrdered, level, sequenceId, acc) ==
    IF child.type = "list"
    THEN renderList(child, level + 1, acc)
    ELSE IF child.type = "paragraph"
    THEN [out |-> <<processListItem(EncodeInlines(child.inl), isOrdered,
                                    OrOne(sequenceId), level)>>,
          acc |-> acc]
    ELSE OnlyParagraphs(renderBlockNode(child, level, acc))

\* for (const child of item.children)
RenderItemChildren(kids, isOrdered, level, sequenceId, acc) ==
    IF kids = <<>> THEN [out |-> <<>>, acc |-> acc]
    ELSE RestOfChildren(RenderItemChild(Head(kids), isOrdered, level, sequenceId, acc),
                        Tail(kids), isOrdered, level, sequenceId)

\* the paragraphs processImage resolves to: the image, or its placeholder
\* when the data URL, the fetch or the payload is bad
ImageBlocks(node) ==
    IF node.ok THEN <<OtherBlock("image")>> ELSE <<OtherBlock("imagePlaceholder")>>

-----------------------------------------------------------------------------
(* modelToDocx as a state machine: one action per top-level node. The clock *)
(* is a non-decreasing millisecond counter: every read of it is at most     *)
(* MaxTick milliseconds after the one before.                               *)

Plain(str) == TextRun(str, FALSE, FALSE)

HeadingNode(level, inlines) ==
    Node("heading", level, inlines, FALSE, Undefined, <<>>, TRUE)

ParagraphNode(inlines) ==
    Node("paragraph", 0, inlines, FALSE, Undefined, <<>>, TRUE)

ListNode(ordered, sequenceId, items) ==
    Node("list", 0, <<>>, ordered, sequenceId, items, TRUE)

ListItemNode(kids) == Node("listItem", 0, <<>>, FALSE, Undefined, kids, TRUE)

BlockquoteNode(kids) == Node("blockquote", 0, <<>>, FALSE, Undefined, kids, TRUE)

ImageNode(ok) == Node("image", 0, <<>>, FALSE, Undefined, <<>>, ok)

LeafNode(type) == Node(type, 0, <<>>, FALSE, Undefined, <<>>, TRUE)

\* the heading nodes below a node, in document order
RECURSIVE HeadingNodes(_)
HeadingNodes(node) ==
    IF node.type = "heading" THEN <<node>>
    ELSE Flatten([i \in 1..Len(node.children) |-> HeadingNodes(node.children[i])])

MaxBlocks == 2

MaxTick == 1

StartTime == 9

NodePool ==
    { HeadingNode(1, <<Plain(<<"A">>)>>),
      HeadingNode(2, <<Plain(<<"A">>)>>),
      HeadingNode(1, <<TextRun(<<"A">>, TRUE, FALSE)>>),
      HeadingNode(1, <<Plain(<<"B">>)>>),
      ParagraphNode(<<Plain(<<"a">>)>>),
      \* - a, then a heading inside the item
      ListNode(FALSE, Undefined,
               <<ListItemNode(<<ParagraphNode(<<Plain(<<"a">>)>>),
                                HeadingNode(2, <<Plain(<<"A">>)>>)>>)>>),
      \* 1. a with a nested ordered list of the same sequence
      ListNode(TRUE, 1,
               <<ListItemNode(<<ParagraphNode(<<Plain(<<"a">>)>>),
                                ListNode(TRUE, 1,
                                    <<ListItemNode(<<ParagraphNode(<<Plain(<<"b">>)>>)>>)>>)>>)>>),
      \* a second ordered list, whose item holds a table and an image only
      ListNode(TRUE, 2, <<ListItemNode(<<LeafNode("table"), ImageNode(TRUE)>>)>>),
      \* > a, then a heading inside the quote
      BlockquoteNode(<<ParagraphNode(<<Plain(<<"a">>)>>),
                       HeadingNode(1, <<Plain(<<"B">>)>>)>>),
      \* > a, then an ordered list inside the quote
      BlockquoteNode(<<ParagraphNode(<<Plain(<<"a">>)>>),
                       ListNode(TRUE, 3,
                           <<ListItemNode(<<ParagraphNode(<<Plain(<<"b">>)>>)>>)>>)>>),
      ImageNode(TRUE),
      ImageNode(FALSE),
      LeafNode("tocPlaceholder"),
      LeafNode("table") }

\* [TOC], # A, a, [TOC]
SampleTwoPlaceholders ==
    <<LeafNode("tocPlaceholder"), HeadingNode(1, <<Plain(<<"A">>)>>),
      ParagraphNode(<<Plain(<<"a">>)>>), LeafNode("tocPlaceholder")>>

SampleDocuments == {SampleTwoPlaceholders}

Documents == UNION {[1..k -> NodePool] : k \in 0..MaxBlocks} \cup SampleDocuments

InitWalk ==
    /\ model \in Documents
    /\ idx = 0
    /\ children = <<>>
    /\ headings = <<>>
    /\ maxSequenceId = 0
    /\ now = StartTime
    /\ docPc = "walk"
    /\ tocContent = <<>>
    /\ finalDocChildren = <<>>
    /\ numberingConfigs = <<>>
    /\ TokIdle
    /\ SanIdle
    /\ ImgIdle
    /\ SniffIdle
    /\ ConvIdle
    /\ StyleIdle

\* a top-level node other than an image: renderBlockNode(node)
WalkBlock ==
    /\ docPc = "walk"
    /\ idx < Len(model)
    /\ model[idx + 1].type # "image"
    /\ \E ticks \in [1..Len(HeadingNodes(model[idx + 1])) -> 0..MaxTick] :
          \E r \in {renderBlockNode(model[idx + 1], 0,
                       [headings |-> headings, maxSequenceId |-> maxSequenceId,
                        now |-> now, ticks |-> ticks])} :
              /\ children' = children \o r.out
              /\ headings' = r.acc.headings
              /\ maxSequenceId' = r.acc.maxSequenceId
              /\ now' = r.acc.now
    /\ idx' = idx + 1
    /\ UNCHANGED <<model, docPc, tocContent, finalDocChildren, numberingConfigs,
                   tokVars, sanVars, imgVars, sniffVars, convVars, styleVars>>

\* a top-level image: await processImage(node.alt, node.url, style)
WalkImage ==
    /\ docPc = "walk"
    /\ idx < Len(model)
    /\ model[idx + 1].type = "image"
    /\ children' = children \o ImageBlocks(model[idx + 1])
    /\ idx' = idx + 1
    /\ UNCHANGED <<model, headings, maxSequenceId, now, docPc,
                   tocContent, finalDocChildren, numberingConfigs,
                   tokVars, sanVars, imgVars, sniffVars, convVars, styleVars>>

\* return { children, headings, maxSequenceId }
WalkReturn ==
    /\ docPc = "walk"
    /\ idx = Len(model)
    /\ docPc' = "done"
    /\ UNCHANGED <<model, idx, children, headings, maxSequenceId, now,
                   tocContent, finalDocChildren, numberingConfigs,
                   tokVars, sanVars, imgVars, sniffVars, convVars, styleVars>>

\* mutant: the table of contents has no title
TocContent_NoTitle(hs) ==
    IF hs = <<>> THEN <<>>
    ELSE [i \in 1..Len(hs) |->
                Para("tocEntry", hs[i].bookmarkId, hs[i].level, FALSE, <<>>,
                     <<TextRun(hs[i].text, hs[i].level = 1, FALSE)>>)]

\* the title and one entry per heading, or nothing without headings
TocContent(hs) ==
    IF hs = <<>> THEN <<>>
    ELSE <<OtherBlock("tocTitle")>>
         \o [i \in 1..Len(hs) |->
                Para("tocEntry", hs[i].bookmarkId, hs[i].level, FALSE, <<>>,
                     <<TextRun(hs[i].text, hs[i].level = 1, FALSE)>>)]

\* docChildren.forEach: the first placeholder becomes the TOC, the others
\* and every placeholder of a document without headings are dropped
RECURSIVE ReplacePlaceholders(_, _, _)
ReplacePlaceholders(docChildren, toc, tocInserted) ==
    IF docChildren = <<>> THEN <<>>
    ELSE IF Head(docChildren).type = "tocPlaceholder"
         THEN IF toc # <<>> /\ ~tocInserted
              THEN toc \o ReplacePlaceholders(Tail(docChildren), toc, TRUE)
              ELSE ReplacePlaceholders(Tail(docChildren), toc, tocInserted)
    ELSE <<Head(docChildren)>> \o ReplacePlaceholders(Tail(docChildren), toc, tocInserted)

NumberingConfigs_OnlyFirst(n) ==
    [i \in 1..Min(n, 1) |-> [reference |-> NumberingReference(i), levels |-> {0}]]

\* for (let i = 1; i <= maxSequenceId; i++): one definition, with level 0
NumberingConfigs(n) ==
    [i \in 1..n |-> [reference |-> NumberingReference(i), levels |-> {0}]]

\* parseToDocxOptions after modelToDocx has returned
BuildOptions ==
    /\ docPc = "done"
    /\ tocContent' = TocContent(headings)
    /\ finalDocChildren' = ReplacePlaceholders(children, TocContent(headings), FALSE)
    /\ numberingConfigs' = NumberingConfigs(maxSequenceId)
    /\ docPc' = "built"
    /\ UNCHANGED <<model, idx, children, headings, maxSequenceId, now,
                   tokVars, sanVars, imgVars, sniffVars, convVars, styleVars>>

NextWalk ==
    \/ WalkBlock
    \/ WalkImage
    \/ WalkReturn
    \/ BuildOptions

SpecWalk == InitWalk /\ [][NextWalk]_vars

-----------------------------------------------------------------------------
(* processImage: the intrinsic dimensions read from the image header. A     *)
(* number of up to 32 bits is the pair <<high half, low half>> of its 16-bit *)
(* halves, value = high * 65536 + low; the high half of a signed 32-bit     *)
(* integer lies in -32768..32767.                                           *)

\* buf[o], for an offset inside the buffer
Byte(buf, o) == buf[o + 1]

\* (buf[offset] << 8) | buf[offset + 1]
readUint16BE(buf, o) == Byte(buf, o) * 256 + Byte(buf, o + 1)

\* a 16-bit pattern as a signed half
Int16(x) == IF x % 65536 >= 32768 THEN (x % 65536) - 65536 ELSE x % 65536

\* (b0 << 24) | (b1 << 16) | (b2 << 8) | b3: a signed 32-bit integer
Or32(b0, b1, b2, b3) == <<Int16(b0 * 256 + b1), b2 * 256 + b3>>

\* x >>> 0: the same 32 bits read as unsigned
ToUint32(x) == <<x[1] % 65536, x[2]>>

readUint32BE_Signed(buf, o) ==
    Or32(Byte(buf, o), Byte(buf, o + 1), Byte(buf, o + 2), Byte(buf, o + 3))

readUint32BE(buf, o) ==
    ToUint32(Or32(Byte(buf, o), Byte(buf, o + 1), Byte(buf, o + 2), Byte(buf, o + 3)))

\* a number below 65536
Small(n) == <<0, n>>

\* bytes[0] === 0x89 && bytes[1] === 0x50 && bytes[2] === 0x4e && bytes[3] === 0x47
IsPng(buf) ==
    Byte(buf, 0) = 137 /\ Byte(buf, 1) = 80 /\ Byte(buf, 2) = 78 /\ Byte(buf, 3) = 71

PngMinLength == 24

GifMinLength == 10

\* the PNG branch
SniffPngHeader(buf) ==
    IF IsPng(buf)
    THEN [width |-> readUint32BE(buf, 16), height |-> readUint32BE(buf, 20)]
    ELSE [width |-> NoValue, height |-> NoValue]

\* the GIF branch: bytes[6] | (bytes[7] << 8), bytes[8] | (bytes[9] << 8)
SniffGifHeader(buf) ==
    [width  |-> Small(Byte(buf, 6) + Byte(buf, 7) * 256),
     height |-> Small(Byte(buf, 8) + Byte(buf, 9) * 256)]

JpegInLoop_OneByteLess(buf, o) == o + 8 < Len(buf)

\* while (offset + 9 < bytes.length)
JpegInLoop(buf, o) == o + 9 < Len(buf)

\* marker === 0xc0 || marker === 0xc2
IsSof(marker) == marker = 192 \/ marker = 194

\* mutant: the two bytes of the marker are not stepped over
JpegNextOffset_LengthOnly(buf, o) == o + readUint16BE(buf, o + 2)

\* offset += 2 + length
JpegNextOffset(buf, o) == o + 2 + readUint16BE(buf, o + 2)

JpegDimensions(buf, o) ==
    [width  |-> Small(readUint16BE(buf, o + 7)),
     height |-> Small(readUint16BE(buf, o + 5))]

\* Buffers: PNG headers with every combination of the sample bytes in the
\* width field, chains of at most MaxSegments JPEG segments, GIF headers.
ByteSamples == {0, 1, 128, 255}

PngSignature == <<137, 80, 78, 71, 13, 10, 26, 10>>

\* the length and the type of the IHDR chunk
IhdrStart == <<0, 0, 0, 13, 73, 72, 68, 82>>

\* 800 and 600
Sample800 == <<0, 0, 3, 32>>

Sample600 == <<0, 0, 2, 88>>

PngWidths == [1..4 -> ByteSamples] \cup {Sample800}

PngHeights == {Sample600, <<128, 0, 0, 1>>, <<0, 0, 0, 0>>}

PngBuffers ==
    LET full == {sig \o IhdrStart \o w \o h :
                    sig \in {PngSignature, <<137, 80, 78, 70, 13, 10, 26, 10>>},
                    w \in PngWidths, h \in PngHeights}
    IN  full
        \cup {b \o <<13>> : b \in {PngSignature \o IhdrStart \o Sample800 \o h : h \in PngHeights}}
        \cup {SubSeq(PngSignature \o IhdrStart \o Sample800 \o Sample600, 1, n) : n \in {4, 23}}

MaxSegments == 3

JpegSegments ==
    { <<255, 224, 0, 4, 1, 2>>,                               \* APP0, length 4
      <<255, 225, 0, 0>>,                                     \* declared length 0
      <<255, 224, 255, 255>>,                                 \* length past the end
      <<255, 192, 0, 11, 8, 2, 88, 3, 32, 1, 1, 17, 0>>,      \* SOF0 600 x 800
      <<255, 194, 0, 11, 8, 0, 16, 0, 32, 1, 1, 17, 0>>,      \* SOF2 16 x 32
      <<255, 192, 0, 7, 8, 0, 16, 0, 32>>,                    \* SOF0 of 9 bytes
      <<255, 192, 0, 17, 8, 0, 16, 0, 32, 3>>,                \* SOF0 cut short
      <<0, 0>> }                                              \* not a marker

JpegBuffers ==
    {<<255, 216>> \o Flatten(segs) :
        segs \in UNION {[1..k -> JpegSegments] : k \in 0..MaxSegments}}

GifBuffers ==
    LET full == {<<71, 73, 70, 56, 57, 97>> \o <<wl, wh, 88, 2>> :
                    wl \in ByteSamples, wh \in ByteSamples}
    IN  full \cup {SubSeq(b, 1, 9) : b \in full} \cup {b \o <<0>> : b \in full}

Buffers == PngBuffers \cup JpegBuffers \cup GifBuffers

InitSniff ==
    /\ bytes \in Buffers
    /\ imageType \in {"png", "jpg", "gif"}
    /\ offset = 0
    /\ intrinsic = [width |-> NoValue, height |-> NoValue]
    /\ sniffPc = "start"
    /\ TokIdle
    /\ SanIdle
    /\ ImgIdle
    /\ DocIdle
    /\ ConvIdle
    /\ StyleIdle

\* imageType === "png" && bytes.length >= 24
SniffPng ==
    /\ sniffPc = "start"
    /\ imageType = "png" /\ Len(bytes) >= PngMinLength
    /\ intrinsic' = SniffPngHeader(bytes)
    /\ sniffPc' = "done"
    /\ UNCHANGED <<bytes, imageType, offset, tokVars, sanVars, imgVars, docVars, convVars, styleVars>>

\* imageType === "jpg": let offset = 2
SniffJpegStart ==
    /\ sniffPc = "start"
    /\ imageType = "jpg"
    /\ offset' = 2
    /\ sniffPc' = "jpeg"
    /\ UNCHANGED <<bytes, imageType, intrinsic, tokVars, sanVars, imgVars, docVars, convVars, styleVars>>

\* an iteration that finds a start-of-frame marker
JpegFound ==
    /\ sniffPc = "jpeg"
    /\ JpegInLoop(bytes, offset)
    /\ Byte(bytes, offset) = 255
    /\ IsSof(Byte(bytes, offset + 1))
    /\ intrinsic' = JpegDimensions(bytes, offset)
    /\ sniffPc' = "done"
    /\ UNCHANGED <<bytes, imageType, offset, tokVars, sanVars, imgVars, docVars, convVars, styleVars>>

\* an iteration that steps over a segment
JpegSkip ==
    /\ sniffPc = "jpeg"
    /\ JpegInLoop(bytes, offset)
    /\ Byte(bytes, offset) = 255
    /\ ~IsSof(Byte(bytes, offset + 1))
    /\ offset' = JpegNextOffset(bytes, offset)
    /\ UNCHANGED <<bytes, imageType, intrinsic, sniffPc, tokVars, sanVars, imgVars, docVars, convVars, styleVars>>

\* if (bytes[offset] !== 0xff) break
JpegBreak ==
    /\ sniffPc = "jpeg"
    /\ JpegInLoop(bytes, offset)
    /\ Byte(bytes, offset) # 255
    /\ sniffPc' = "done"
    /\ UNCHANGED <<bytes, imageType, offset, intrinsic, tokVars, sanVars, imgVars, docVars, convVars, styleVars>>

\* the loop condition fails
JpegEnd ==
    /\ sniffPc = "jpeg"
    /\ ~JpegInLoop(bytes, offset)
    /\ sniffPc' = "done"
    /\ UNCHANGED <<bytes, imageType, offset, intrinsic, tokVars, sanVars, imgVars, docVars, convVars, styleVars>>

\* imageType === "gif" && bytes.length >= 10
SniffGif ==
    /\ sniffPc = "start"
    /\ imageType = "gif" /\ Len(bytes) >= GifMinLength
    /\ intrinsic' = SniffGifHeader(bytes)
    /\ sniffPc' = "done"
    /\ UNCHANGED <<bytes, imageType, offset, tokVars, sanVars, imgVars, docVars, convVars, styleVars>>

\* no branch applies: both dimensions stay undefined
SniffNone ==
    /\ sniffPc = "start"
    /\ \/ imageType = "png" /\ Len(bytes) < PngMinLength
       \/ imageType = "gif" /\ Len(bytes) < GifMinLength
    /\ sniffPc' = "done"
    /\ UNCHANGED <<bytes, imageType, offset, intrinsic, tokVars, sanVars, imgVars, docVars, convVars, styleVars>>

NextSniff ==
    \/ SniffPng
    \/ SniffJpegStart
    \/ JpegFound
    \/ JpegSkip
    \/ JpegBreak
    \/ JpegEnd
    \/ SniffGif
    \/ SniffNone

SpecSniff == InitSniff /\ [][NextSniff]_vars

\* the sniffing is straight-line code and one loop: it always takes its next step
SpecSniffLive == SpecSniff /\ WF_vars(NextSniff)

-----------------------------------------------------------------------------
(* convertMarkdownToDocx, parseToDocxOptions and validateInput. lineSpacing  *)
(* is held in hundredths (1.15 is 115).                                      *)

MarkdownConversionError(message, context) ==
    [name |-> "MarkdownConversionError", message |-> message, originalError |-> context]

\* any other exception
OtherError(message) ==
    [name |-> "Error", message |-> <<message>>, originalError |-> <<>>]

\* x && (x < lo || x > hi)
OutOfRange(x, lo, hi) == Truthy(x) /\ (x < lo \/ x > hi)

\* the error validateInput throws, NoError when it returns
validateInput(md, opts) ==
    IF ~md.truthy \/ ~md.isString
    THEN MarkdownConversionError(<<"Invalid markdown input">>, <<>>)
    ELSE IF opts.hasStyle /\ OutOfRange(opts.titleSize, 8, 72)
    THEN MarkdownConversionError(<<"Invalid title size">>, <<>>)
    ELSE IF opts.hasStyle /\ OutOfRange(opts.headingSpacing, 0, 720)
    THEN MarkdownConversionError(<<"Invalid heading spacing">>, <<>>)
    ELSE IF opts.hasStyle /\ OutOfRange(opts.paragraphSpacing, 0, 720)
    THEN MarkdownConversionError(<<"Invalid paragraph spacing">>, <<>>)
    ELSE IF opts.hasStyle /\ OutOfRange(opts.lineSpacing, 100, 300)
    THEN MarkdownConversionError(<<"Invalid line spacing">>, <<>>)
    ELSE NoError

\* catch (error): a MarkdownConversionError is thrown again, anything else
\* is wrapped with the original error in the context
Rethrow(e) ==
    IF e.name = "MarkdownConversionError" THEN e
    ELSE MarkdownConversionError(
             <<"Failed to convert markdown to docx: ">> \o e.message, <<e>>)

\* what the parser, the model builder and the walk may throw
InnerErrors ==
    { OtherError("parse failed"),
      MarkdownConversionError(<<"unsupported node">>, <<>>) }

MarkdownInputs ==
    { [isString |-> TRUE, truthy |-> TRUE],     \* "# A"
      [isString |-> TRUE, truthy |-> FALSE],    \* ""
      [isString |-> FALSE, truthy |-> FALSE],   \* undefined, null
      [isString |-> FALSE, truthy |-> TRUE] }   \* 42

TitleSizes == {Undefined, 0, 7, 8, 32, 72, 73}

HeadingSpacings == {Undefined, -5, 0, 240, 720, 721}

ParagraphSpacings == {Undefined, -5, 240, 721}

LineSpacings == {Undefined, 0, 50, 100, 115, 300, 301}

OptionInputs ==
    {NoOptions}
    \cup [hasStyle : {TRUE}, titleSize : TitleSizes, headingSpacing : HeadingSpacings,
          paragraphSpacing : ParagraphSpacings, lineSpacing : LineSpacings]

InitConvert ==
    /\ entry \in {"parseToDocxOptions", "convertMarkdownToDocx"}
    /\ markdown \in MarkdownInputs
    /\ options \in OptionInputs
    /\ started = FALSE
    /\ error = NoError
    /\ convPc = "validate"
    /\ TokIdle
    /\ SanIdle
    /\ ImgIdle
    /\ DocIdle
    /\ SniffIdle
    /\ StyleIdle

\* validateInput(markdown, options)
CvValidate ==
    /\ convPc = "validate"
    /\ error' = validateInput(markdown, options)
    /\ convPc' = IF validateInput(markdown, options) = NoError THEN "parse" ELSE "innerCatch"
    /\ UNCHANGED <<entry, markdown, options, started, tokVars, sanVars, imgVars,
                   docVars, sniffVars, styleVars>>

\* parseMarkdownToAst, mdastToDocxModel, modelToDocx and the assembly of the
\* options: they complete, or one of them throws
CvWalk ==
    /\ convPc = "parse"
    /\ started' = TRUE
    /\ \/ convPc' = "options" /\ UNCHANGED error
       \/ \E e \in InnerErrors : error' = e /\ convPc' = "innerCatch"
    /\ UNCHANGED <<entry, markdown, options, tokVars, sanVars, imgVars,
                   docVars, sniffVars, styleVars>>

\* the catch block of parseToDocxOptions
CvInnerCatch ==
    /\ convPc = "innerCatch"
    /\ error' = Rethrow(error)
    /\ convPc' = IF entry = "convertMarkdownToDocx" THEN "outerCatch" ELSE "rejected"
    /\ UNCHANGED <<entry, markdown, options, started, tokVars, sanVars, imgVars,
                   docVars, sniffVars, styleVars>>

\* parseToDocxOptions returns the options to its caller
CvReturnOptions ==
    /\ convPc = "options"
    /\ entry = "parseToDocxOptions"
    /\ convPc' = "resolved"
    /\ UNCHANGED <<entry, markdown, options, started, error, tokVars, sanVars,
                   imgVars, docVars, sniffVars, styleVars>>

\* new Document(docxOptions), Packer.toBlob(doc): they complete or throw
CvPack ==
    /\ convPc = "options"
    /\ entry = "convertMarkdownToDocx"
    /\ \/ convPc' = "resolved" /\ UNCHANGED error
       \/ error' = OtherError("pack failed") /\ convPc' = "outerCatch"
    /\ UNCHANGED <<entry, markdown, options, started, tokVars, sanVars, imgVars,
                   docVars, sniffVars, styleVars>>

\* the catch block of convertMarkdownToDocx
CvOuterCatch ==
    /\ convPc = "outerCatch"
    /\ error' = Rethrow(error)
    /\ convPc' = "rejected"
    /\ UNCHANGED <<entry, markdown, options, started, tokVars, sanVars, imgVars,
                   docVars, sniffVars, styleVars>>

NextConvert ==
    \/ CvValidate
    \/ CvWalk
    \/ CvInnerCatch
    \/ CvReturnOptions
    \/ CvPack
    \/ CvOuterCatch

SpecConvert == InitConvert /\ [][NextConvert]_vars

-----------------------------------------------------------------------------
(* The style options: the defaultFont fallback of modelToDocx and the font,  *)
(* size and alignment processHeading resolves. The per-level options        *)
(* heading1Font .. heading5Font, heading1Size .. and heading1Alignment ..    *)
(* are functions of the level.                                               *)

\* a string option that is set (a non-empty string is truthy and not nullish)
IsSet(x) == x # Unset

\* x ??= d
NullishAssign(x, d) == IF x = Unset THEN d ELSE x

FillDefaultFonts_Overwrite(st) ==
    IF IsSet(st.defaultFont)
    THEN [st EXCEPT !.headingFont    = st.defaultFont,
                    !.blockquoteFont = st.defaultFont,
                    !.listItemFont   = st.defaultFont,
                    !.paragraphFont  = st.defaultFont,
                    !.tocFont        = st.defaultFont]
    ELSE st

\* if (style.defaultFont) { style.headingFont ??= style.defaultFont; ... }
FillDefaultFonts(st) ==
    IF IsSet(st.defaultFont)
    THEN [st EXCEPT !.headingFont    = NullishAssign(@, st.defaultFont),
                    !.blockquoteFont = NullishAssign(@, st.defaultFont),
                    !.listItemFont   = NullishAssign(@, st.defaultFont),
                    !.paragraphFont  = NullishAssign(@, st.defaultFont),
                    !.tocFont        = NullishAssign(@, st.defaultFont)]
    ELSE st

\* style[fontKey] || style.headingFont || style.defaultFont
HeadingFont(st, lvl) ==
    IF IsSet(st.headingNFont[lvl]) THEN st.headingNFont[lvl]
    ELSE IF IsSet(st.headingFont) THEN st.headingFont
    ELSE st.defaultFont

HeadingSize_NoPerLevel(st, lvl) ==
    IF lvl > 1 THEN st.titleSize - (lvl - 1) * 4 ELSE st.titleSize

\* the per-level size when it is truthy, else the size computed from titleSize
HeadingSize(st, lvl) ==
    IF lvl \in 1..5 /\ Truthy(st.headingNSize[lvl]) THEN st.headingNSize[lvl]
    ELSE IF lvl > 1 THEN st.titleSize - (lvl - 1) * 4
    ELSE st.titleSize

\* AlignmentType[name]
AlignmentType(name) ==
    CASE name = "LEFT" -> "left"
      [] name = "CENTER" -> "center"
      [] name = "RIGHT" -> "right"
      [] name = "JUSTIFIED" -> "both"
      [] OTHER -> Unset

HeadingAlignment(st, lvl) ==
    IF lvl \in 1..5 /\ IsSet(st.headingNAlignment[lvl])
    THEN AlignmentType(st.headingNAlignment[lvl])
    ELSE IF IsSet(st.headingAlignment) THEN AlignmentType(st.headingAlignment)
    ELSE Unset

\* Styles: at most one level carries per-level options
Levels == 1..5

OnlyLevel(k, isOn, v, none) == [l \in Levels |-> IF isOn /\ l = k THEN v ELSE none]

OtherFonts ==
    { [blockquoteFont |-> Unset, listItemFont |-> Unset, paragraphFont |-> Unset, tocFont |-> Unset],
      [blockquoteFont |-> "Arial", listItemFont |-> "Arial", paragraphFont |-> "Arial", tocFont |-> "Arial"],
      [blockquoteFont |-> Unset, listItemFont |-> Unset, paragraphFont |-> "Arial", tocFont |-> Unset] }

Styles ==
    { [defaultFont |-> df, headingFont |-> hf,
       headingNFont |-> OnlyLevel(k, hasFont, "Georgia", Unset),
       blockquoteFont |-> o.blockquoteFont, listItemFont |-> o.listItemFont,
       paragraphFont |-> o.paragraphFont, tocFont |-> o.tocFont,
       titleSize |-> ts,
       headingNSize |-> OnlyLevel(k, hasSize, 40, Undefined),
       headingAlignment |-> ha,
       headingNAlignment |-> OnlyLevel(k, hasAlign, "RIGHT", Unset)] :
        df \in {Unset, "Consolas"}, hf \in {Unset, "Trebuchet"},
        k \in Levels, hasFont \in BOOLEAN, hasSize \in BOOLEAN, hasAlign \in BOOLEAN,
        o \in OtherFonts, ts \in {8, 32}, ha \in {Unset, "CENTER"} }

InitStyle ==
    /\ style \in Styles
    /\ headingLevel \in Levels
    /\ headingStyle = NoHeadingStyle
    /\ stylePc \in {"modelToDocx", "processHeading"}
    /\ TokIdle
    /\ SanIdle
    /\ ImgIdle
    /\ DocIdle
    /\ SniffIdle
    /\ ConvIdle

\* modelToDocx fills the unset fonts of the style object it was given
ApplyDefaultFont ==
    /\ stylePc = "modelToDocx"
    /\ style' = FillDefaultFonts(style)
    /\ stylePc' = "processHeading"
    /\ UNCHANGED <<headingLevel, headingStyle, tokVars, sanVars, imgVars, docVars,
                   sniffVars, convVars>>

\* processHeading resolves the font, the size and the alignment of a heading
ResolveHeadingStyle ==
    /\ stylePc = "processHeading"
    /\ headingStyle' = [font      |-> HeadingFont(style, headingLevel),
                        size      |-> HeadingSize(style, headingLevel),
                        alignment |-> HeadingAlignment(style, headingLevel)]
    /\ stylePc' = "done"
    /\ UNCHANGED <<style, headingLevel, tokVars, sanVars, imgVars, docVars,
                   sniffVars, convVars>>

NextStyle ==
    \/ ApplyDefaultFont
    \/ ResolveHeadingStyle

SpecStyle == InitStyle /\ [][NextStyle]_vars

-----------------------------------------------------------------------------
(* Properties of the tokenizer (specification Spec)                        *)

Count(s, ch) == Cardinality({i \in 1..Len(s) : s[i] = ch})

\* the scan of ln ends with no emphasis or code region open
EndsClosed(ln, v) ==
    LET st == RunScan(ln, InitScan, v)
    IN  ~st.isBold /\ ~st.isItalic /\ ~st.isInlineCode

\* all the text the runs carry
RunText(runs) ==
    Flatten([i \in 1..Len(runs) |-> runs[i].value \o runs[i].link])

\* ln has balanced markers only: every region is closed, nothing is escaped,
\* no marker character was left as literal text and no run is blank
Balanced(ln, v) ==
    LET runs == Tokenize(ln, v)
    IN  /\ EndsClosed(ln, v)
        /\ Count(ln, "\\") = 0
        /\ Count(RunText(runs), "*") = 0
        /\ Count(RunText(runs), BT) = 0
        /\ \A i \in 1..Len(runs) : TrimNonEmpty(runs[i].value)

\* C1 (as claimed): for every line with balanced emphasis markers, encoding
\* the runs of processFormattedText back to marker text and tokenizing that
\* text again yields the same runs.
C1_RoundTrip ==
    (pc = "done" /\ variant = "body" /\ Balanced(line, "body"))
        => processFormattedText(EncodeInlines(scan.textRuns)) = scan.textRuns

\* C2 (as claimed): the sample line yields exactly 4 runs: bold-only,
\* italic-only, a code run "code", a link run with text "t" and target "u".
C2_FourRuns ==
    (pc = "done" /\ variant = "body" /\ line = SampleMixed)
        => /\ Len(scan.textRuns) = 4
           /\ scan.textRuns[1] = TextRun(<<"b", "o", "l", "d">>, TRUE, FALSE)
           /\ scan.textRuns[2] = TextRun(<<"i", "t", "a", "l", "i", "c">>, FALSE, TRUE)
           /\ scan.textRuns[3] = processInlineCode(<<"c", "o", "d", "e">>)
           /\ scan.textRuns[4] = ExternalHyperlink(<<"t">>, FALSE, FALSE, <<"u">>)

\* C2 (amended): the sample line yields exactly 7 runs: the bold-only run
\* "bold", the italic-only run "italic", the code run "code" and the link run
\* "t" -> "u", in this order, each two separated by the plain run " and ".
C2_SevenRuns ==
    (pc = "done" /\ variant = "body" /\ line = SampleMixed)
        => scan.textRuns =
             << TextRun(<<"b", "o", "l", "d">>, TRUE, FALSE),
                TextRun(<<" ", "a", "n", "d", " ">>, FALSE, FALSE),
                TextRun(<<"i", "t", "a", "l", "i", "c">>, FALSE, TRUE),
                TextRun(<<" ", "a", "n", "d", " ">>, FALSE, FALSE),
                processInlineCode(<<"c", "o", "d", "e">>),
                TextRun(<<" ", "a", "n", "d", " ">>, FALSE, FALSE),
                ExternalHyperlink(<<"t">>, FALSE, FALSE, <<"u">>) >>

C2_Witness ==
    pc = "done" /\ variant = "body" /\ line = SampleMixed /\ Len(scan.textRuns) = 7

MarkerChars == {"*", BT, "[", "\\"}

\* ln is an opening marker *, ** or *** followed by a non-blank text without
\* marker characters
UnclosedOpening(ln) ==
    \E n \in 1..3 :
        /\ Len(ln) > n
        /\ \A i \in 1..n : ln[i] = "*"
        /\ \A i \in (n + 1)..Len(ln) : ln[i] \notin MarkerChars
        /\ TrimNonEmpty(ln)

\* C3: an opening marker *, ** or *** followed by a non-blank text without
\* marker characters tokenizes (body and heading variant) to exactly one run,
\* whose value is the whole line, marker included, with bold = italic = false.
C3_UnterminatedLiteral ==
    (pc = "done" /\ UnclosedOpening(line))
        => scan.textRuns = <<TextRun(line, FALSE, FALSE)>>

C3_Witness ==
    /\ pc = "done" /\ variant = "heading" /\ line = SampleUnterminated
    /\ scan.textRuns = <<TextRun(line, FALSE, FALSE)>>

\* no step of the scan of ln closes a region: whatever was opened stays open
RECURSIVE NeverCloses(_, _, _)
NeverCloses(ln, st, v) ==
    IF st.j >= Len(ln) THEN TRUE
    ELSE LET nx == Step(ln, st, v)
         IN  /\ (st.isBold => nx.isBold)
             /\ (st.isItalic => nx.isItalic)
             /\ (st.isInlineCode => nx.isInlineCode)
             /\ NeverCloses(ln, nx, v)

\* C4 (as claimed): when markers are opened and never closed, they degrade to
\* literal text: every marker character of the line is in the values of the
\* emitted runs and no emitted run is bold, italic or code.
C4_UnclosedDegrades ==
    (/\ pc = "done" /\ variant = "body"
     /\ Count(line, "\\") = 0
     /\ NeverCloses(line, InitScan, "body")
     /\ ~EndsClosed(line, "body"))
        => /\ Count(RunText(scan.textRuns), "*") = Count(line, "*")
           /\ Count(RunText(scan.textRuns), BT) = Count(line, BT)
           /\ \A i \in 1..Len(scan.textRuns) :
                /\ ~scan.textRuns[i].bold
                /\ ~scan.textRuns[i].italic
                /\ scan.textRuns[i].kind # "code"

\* C5: the returned list has at least one run; the runs of the scan are kept,
\* followed at most by the trailing run, and when there is neither the
\* result is exactly one run with empty text.
C5_NeverEmpty ==
    [][(pc = "scan" /\ pc' = "done") =>
        LET r == scan'.textRuns
            n == Len(scan.textRuns)
        IN  /\ Len(r) >= 1
            /\ \/ (n >= 1 /\ r = scan.textRuns)
               \/ /\ Len(r) = n + 1
                  /\ SubSeq(r, 1, n) = scan.textRuns
                  /\ r[n + 1].kind = "text"
                  /\ \/ TrimNonEmpty(r[n + 1].value)
                     \/ (n = 0 /\ r[1].value = <<>>)]_vars

C5_Witness ==
    /\ pc = "done" /\ Len(line) > 0
    /\ Len(scan.textRuns) = 1 /\ scan.textRuns[1].value = <<>>

-----------------------------------------------------------------------------
(* Properties of sanitizeForBookmarkId (specification SpecSanitize)        *)

IsPrefix(s, t) == Len(s) <= Len(t) /\ SubSeq(t, 1, Len(s)) = s

\* C6: the result has 1 to 40 characters, all letters, digits or "_", and
\* starts with a letter or "_"; its letters and digits are those of the text,
\* in order (all of them when nothing was cut); no whitespace run is lost
\* without an underscore; a text that is already an identifier of at most 40
\* characters is returned as it is; "" gives "_" and "Hello, World! 2024"
\* gives "Hello_World_2024".
C6_Sanitize ==
    sanPc = "done" =>
        /\ Len(sanitized) \in 1..BookmarkMaxLen
        /\ \A i \in 1..Len(sanitized) : sanitized[i] \in Letters \cup Digits \cup {"_"}
        /\ sanitized[1] \in Letters \cup {"_"}
        /\ IsPrefix(SelectChars(sanitized, Letters \cup Digits),
                    SelectChars(text, Letters \cup Digits))
        /\ (Len(text) < BookmarkMaxLen =>
               /\ SelectChars(sanitized, Letters \cup Digits)
                    = SelectChars(text, Letters \cup Digits)
               /\ Count(sanitized, "_") >= Count(text, "_")
               /\ \A i \in 1..Len(text) :
                    text[i] \in RegexSpace => Count(sanitized, "_") > Count(text, "_"))
        /\ ((/\ Len(text) \in 1..BookmarkMaxLen
             /\ text[1] \in Letters \cup {"_"}
             /\ \A i \in 1..Len(text) : text[i] \in Letters \cup Digits \cup {"_"})
               => sanitized = text)
        /\ (text = <<>> => sanitized = <<"_">>)
        /\ (text = SampleHello =>
               sanitized = <<"H", "e", "l", "l", "o", "_", "W", "o", "r", "l", "d",
                             "_", "2", "0", "2", "4">>)

C6_Witness ==
    /\ sanPc = "done"
    /\ text = SampleHello
    /\ Len(sanitized) = 16

-----------------------------------------------------------------------------
(* Properties of the image dimensions (specification SpecImage)            *)

\* the dimensions have been resolved: by processImage or by a direct call
Resolved == imgPc \in {"emit", "done", "returned"} /\ paragraph.type # "imageError"

\* the fragment supplied the hint
Present(hint) == hint # Undefined

AspectKnown == Truthy(intrinsicWidth) /\ Truthy(intrinsicHeight)

TableRows(heightOf(_)) ==
    /\ (Truthy(widthHint) /\ ~Truthy(heightHint) /\ AspectKnown)
          => /\ outWidth = widthHint
             /\ outHeight = Max(1, RoundDiv(widthHint * intrinsicHeight, intrinsicWidth))
    /\ (~Truthy(widthHint) /\ Truthy(heightHint) /\ AspectKnown)
          => /\ outHeight = heightHint
             /\ outWidth = Max(1, RoundDiv(heightHint * intrinsicWidth, intrinsicHeight))
    /\ (~Truthy(widthHint) /\ ~Truthy(heightHint) /\ Truthy(intrinsicWidth))
          => /\ outWidth = Min(intrinsicWidth, MaxIntrinsicWidth)
             /\ outHeight = IF AspectKnown THEN heightOf(outWidth) ELSE Undefined
    /\ (/\ ~Truthy(widthHint) /\ ~Truthy(heightHint)
        /\ ~Truthy(intrinsicWidth) /\ ~Truthy(intrinsicHeight))
          => outWidth = DefaultWidth /\ outHeight = Undefined
    /\ (/\ widthHint = 100 /\ heightHint = Undefined
        /\ intrinsicWidth = 200 /\ intrinsicHeight = 100)
          => outWidth = 100 /\ outHeight = 50

RoundedHeight(w) == RoundDiv(w * intrinsicHeight, intrinsicWidth)

AtLeastOneHeight(w) == Max(1, RoundDiv(w * intrinsicHeight, intrinsicWidth))

\* C10 (as claimed): when not both hints are set the result follows the
\* decision table, whose fourth row (no hint, intrinsic width known) gives
\* height = round(width / aspect) when the aspect is known.
C10_Table ==
    (Resolved /\ ~(Truthy(widthHint) /\ Truthy(heightHint)))
        => TableRows(RoundedHeight)

\* C10 (amended): when not both hints are set the result follows the decision
\* table, whose fourth row gives height = max(1, round(width / aspect)) when
\* the aspect is known (a hint or an intrinsic dimension of 0 counts as unset).
C10_TableMinOne ==
    (Resolved /\ ~(Truthy(widthHint) /\ Truthy(heightHint)))
        => TableRows(AtLeastOneHeight)

C10_Witness ==
    /\ imgPc = "emit"
    /\ widthHint = 100 /\ heightHint = Undefined
    /\ intrinsicWidth = 200 /\ intrinsicHeight = 100
    /\ outWidth = 100 /\ outHeight = 50

-----------------------------------------------------------------------------
(* Properties of the walk (specification SpecWalk)                         *)

\* the heading paragraphs among the blocks, in order
HeadingParagraphs(blocks) == SelectSeq(blocks, LAMBDA p : p.type = "heading")

\* the heading nodes of the top-level nodes walked so far, in document order
HeadingsWalked ==
    Flatten([i \in 1..idx |-> HeadingNodes(model[i])])

\* C7: within one conversion every two entries of the heading list have
\* distinct bookmarkIds, also when the two headings have the same text and
\* the clock returns the same millisecond for both.
C7_DistinctBookmarks ==
    \A i, k \in 1..Len(headings) :
        i # k => headings[i].bookmarkId # headings[k].bookmarkId

\* C8: the heading list holds exactly one entry per heading node walked so
\* far, wherever the node sits (top level, list item, blockquote), in
\* document order, with the node's re-encoded text and level; the entry's
\* bookmarkId is the id of the bookmark in that heading's paragraph. Holding
\* in every state of the walk, no entry is reordered, removed or merged.
C8_OneEntryPerHeading ==
    docPc \in {"walk", "done"} =>
        /\ Len(headings) = Len(HeadingsWalked)
        /\ \A i \in 1..Len(headings) :
              /\ i <= Len(HeadingsWalked)
              /\ headings[i].text = EncodeInlines(HeadingsWalked[i].inl)
              /\ headings[i].level = HeadingsWalked[i].level
        /\ Len(HeadingParagraphs(children)) = Len(headings)
        /\ \A i \in 1..Len(headings) :
              /\ i <= Len(HeadingParagraphs(children))
              /\ HeadingParagraphs(children)[i].bookmarkId = headings[i].bookmarkId

-----------------------------------------------------------------------------
(* Properties of processImage, continued (specification SpecImage)          *)

\* C11: for every combination of hints and intrinsic dimensions, the width
\* and the height of the image run are both defined integers of at least 1;
\* when the resolution leaves the height unset, the height of the run is
\* round(width * 0.75).
C11_DimensionsDefined ==
    (imgPc = "done" /\ paragraph.type = "image") =>
        /\ paragraph.width \in Nat /\ paragraph.width >= 1
        /\ paragraph.height \in Nat /\ paragraph.height >= 1
        /\ paragraph.width = outWidth
        /\ outHeight = Undefined =>
              paragraph.height = RoundDiv(3 * paragraph.width, 4)

\* an image with an intrinsic width of 1 and no usable height gets 1 x 1
C11_Witness ==
    /\ imgPc = "done" /\ paragraph.type = "image"
    /\ outHeight = Undefined
    /\ paragraph.width = 1 /\ paragraph.height = 1

-----------------------------------------------------------------------------
(* Properties of the header sniffing (specification SpecSniff)              *)

\* the unsigned big-endian 32-bit integer at offset o, as its two halves
UnsignedAt(buf, o) ==
    <<Byte(buf, o) * 256 + Byte(buf, o + 1), Byte(buf, o + 2) * 256 + Byte(buf, o + 3)>>

HasPngMagic(buf) == Len(buf) >= 4 /\ SubSeq(buf, 1, 4) = <<137, 80, 78, 71>>

\* C12: for a PNG-typed buffer of at least 24 bytes that begins with the
\* magic 0x89 0x50 0x4E 0x47, the intrinsic width is the unsigned big-endian
\* 32-bit integer at bytes 16..19 and the height the one at bytes 20..23,
\* never negative, also when the top byte is 0x80 or more (800 and 600 for
\* the sample header); for a shorter buffer or one without the magic both
\* stay undefined.
C12_PngDimensions ==
    (sniffPc = "done" /\ imageType = "png") =>
        IF Len(bytes) >= 24 /\ HasPngMagic(bytes)
        THEN /\ intrinsic.width = UnsignedAt(bytes, 16)
             /\ intrinsic.height = UnsignedAt(bytes, 20)
             /\ intrinsic.width[1] \in 0..65535 /\ intrinsic.width[2] \in 0..65535
             /\ intrinsic.height[1] \in 0..65535 /\ intrinsic.height[2] \in 0..65535
             /\ (SubSeq(bytes, 17, 24) = Sample800 \o Sample600
                    => intrinsic = [width |-> <<0, 800>>, height |-> <<0, 600>>])
        ELSE intrinsic = [width |-> NoValue, height |-> NoValue]

\* a PNG header whose width and height both have the top bit set
C12_Witness ==
    /\ sniffPc = "done" /\ imageType = "png"
    /\ Len(bytes) >= 24 /\ HasPngMagic(bytes)
    /\ Byte(bytes, 16) = 255 /\ Byte(bytes, 20) = 128
    /\ intrinsic.width[1] >= 32768 /\ intrinsic.height = <<32768, 1>>

NoDimensions == [width |-> NoValue, height |-> NoValue]

\* the big-endian 16-bit values at +5 (height) and +7 (width) of the segment at o
FrameAt(buf, o) ==
    [width  |-> <<0, Byte(buf, o + 7) * 256 + Byte(buf, o + 8)>>,
     height |-> <<0, Byte(buf, o + 5) * 256 + Byte(buf, o + 6)>>]

\* the declared length of the segment at o
SegmentLength(buf, o) == Byte(buf, o + 2) * 256 + Byte(buf, o + 3)

\* The chain of segments from o, as the claim words it: the first segment
\* with marker 0xC0 or 0xC2 counts when the whole segment (marker, length and
\* the bytes the length declares) lies inside the buffer.
RECURSIVE FirstWholeFrame(_, _)
FirstWholeFrame(buf, o) ==
    IF o + 3 >= Len(buf) \/ Byte(buf, o) # 255 THEN NoDimensions
    ELSE IF Byte(buf, o + 1) \in {192, 194}
         THEN IF o + 2 + SegmentLength(buf, o) <= Len(buf) /\ o + 8 < Len(buf)
              THEN FrameAt(buf, o)
              ELSE NoDimensions
    ELSE FirstWholeFrame(buf, o + 2 + SegmentLength(buf, o))

\* The chain of segments from o, as the code walks it: a segment is looked
\* at only when ten bytes from its start lie inside the buffer, whatever
\* length it declares.
RECURSIVE FirstFrameWithTenBytes(_, _)
FirstFrameWithTenBytes(buf, o) ==
    IF o + 10 > Len(buf) \/ Byte(buf, o) # 255 THEN NoDimensions
    ELSE IF Byte(buf, o + 1) \in {192, 194} THEN FrameAt(buf, o)
    ELSE FirstFrameWithTenBytes(buf, o + 2 + SegmentLength(buf, o))

\* C13 (as stated): for a JPEG-typed buffer the intrinsic height and width
\* are the 16-bit values at +5 and +7 of the first segment with marker 0xC0
\* or 0xC2 that lies wholly inside the buffer; with no such segment both are
\* undefined.
C13_FirstWholeFrame ==
    (sniffPc = "done" /\ imageType = "jpg") =>
        intrinsic = FirstWholeFrame(bytes, 2)

\* C13 (amended): for a JPEG-typed buffer the intrinsic height and width are
\* the 16-bit values at +5 and +7 of the first segment with marker 0xC0 or
\* 0xC2 that the walk reaches with at least ten bytes of the buffer left
\* from the segment's start, whether or not the declared length fits; the
\* walk ends at the first offset that is not 0xFF or has fewer than ten
\* bytes left, and then both are undefined.
C13_FirstFrameWithTenBytes ==
    (sniffPc = "done" /\ imageType = "jpg") =>
        intrinsic = FirstFrameWithTenBytes(bytes, 2)

\* a frame header found after stepping over another segment
C13_Witness ==
    /\ sniffPc = "done" /\ imageType = "jpg"
    /\ offset > 2
    /\ intrinsic = [width |-> <<0, 800>>, height |-> <<0, 600>>]

-----------------------------------------------------------------------------
(* Properties of the walk, continued (specification SpecWalk)               *)

\* the sequence ids of the list nodes at and below a node, at any depth
RECURSIVE ListSequenceIds(_)
ListSequenceIds(node) ==
    (IF node.type = "list" /\ node.sequenceId # Undefined
     THEN {node.sequenceId} ELSE {})
    \cup UNION {ListSequenceIds(node.children[i]) : i \in 1..Len(node.children)}

\* the largest element of a set of numbers, 0 for the empty set
Largest(S) == IF S = {} THEN 0 ELSE CHOOSE m \in S : \A x \in S : x <= m

\* C14: maxSequenceId starts at 0, and after the walk of the first idx
\* top-level nodes it is the largest sequenceId of any list node among them,
\* at any nesting depth (so it never decreases, and the value returned is
\* the largest sequenceId of the model, 0 when there is no list); for the
\* lists with ids 1 (holding a nested list with id 1) and 2 it is 2.
C14_MaxSequenceId ==
    docPc \in {"walk", "done"} =>
        maxSequenceId =
            Largest(UNION {ListSequenceIds(model[i]) : i \in 1..idx})

\* the list nodes at and below a node that are ordered
RECURSIVE HasOrderedList(_)
HasOrderedList(node) ==
    \/ node.type = "list" /\ node.ordered
    \/ \E i \in 1..Len(node.children) : HasOrderedList(node.children[i])

\* C15: parseToDocxOptions registers exactly one numbering definition per
\* sequence id from 1 to maxSequenceId, named numbered-list-<id>, no fewer
\* and no more; with no ordered list in the document it registers none.
C15_OneDefinitionPerSequence ==
    docPc = "built" =>
        /\ Len(numberingConfigs) = maxSequenceId
        /\ \A k \in 1..maxSequenceId :
              Cardinality({i \in 1..Len(numberingConfigs) :
                  numberingConfigs[i].reference = <<"numbered-list-">> \o ToDigits(k)}) = 1
        /\ (\A i \in 1..Len(model) : ~HasOrderedList(model[i]))
              => numberingConfigs = <<>>

\* a document with the sequences 1 and 2
C15_Witness ==
    /\ docPc = "built"
    /\ maxSequenceId = 2
    /\ Len(numberingConfigs) = 2

\* the image nodes at and below a node, in document order
RECURSIVE ImageNodes(_)
ImageNodes(node) ==
    IF node.type = "image" THEN <<node>>
    ELSE Flatten([i \in 1..Len(node.children) |-> ImageNodes(node.children[i])])

\* the image nodes of the top-level nodes walked so far
ImagesWalked == Flatten([i \in 1..idx |-> ImageNodes(model[i])])

\* the blocks that images have produced, in output order
ImageOutputs ==
    SelectSeq(children, LAMBDA p : p.type \in {"image", "imagePlaceholder"})

\* C16: every image node of the model walked so far has produced exactly one
\* block, in document order: the image when its retrieval succeeded, one
\* placeholder paragraph when it failed; a failure neither ends the walk nor
\* skips or reorders a later node.
C16_EveryImageInOrder ==
    docPc \in {"walk", "done"} =>
        /\ Len(ImageOutputs) = Len(ImagesWalked)
        /\ \A i \in 1..Len(ImageOutputs) :
              /\ i <= Len(ImagesWalked)
              /\ ImageOutputs[i].type =
                    (IF ImagesWalked[i].ok THEN "image" ELSE "imagePlaceholder")

-----------------------------------------------------------------------------
(* Properties of the conversion entry points (specification SpecConvert)    *)

\* a defined number outside lo..hi
Outside(x, lo, hi) == x # Undefined /\ (x < lo \/ x > hi)

\* the inputs the validation is said to reject
InvalidInput ==
    \/ ~markdown.isString
    \/ ~markdown.truthy
    \/ /\ options.hasStyle
       /\ \/ Outside(options.titleSize, 8, 72)
          \/ Outside(options.headingSpacing, 0, 720)
          \/ Outside(options.paragraphSpacing, 0, 720)
          \/ Outside(options.lineSpacing, 100, 300)

InCatch == convPc \in {"innerCatch", "outerCatch"}

\* C17: every failure surfaces as a MarkdownConversionError; an invalid input
\* (non-string or empty markdown, titleSize outside 8..72, heading or
\* paragraph spacing outside 0..720, lineSpacing outside 1..3) is rejected
\* before parsing or any tree walk begins; a MarkdownConversionError raised
\* inside passes through unchanged and any other exception is wrapped into
\* one that keeps the original error as context.originalError.
C17_FailuresSurface ==
    [][ /\ convPc' = "rejected" => error'.name = "MarkdownConversionError"
        /\ InvalidInput =>
              ~started' /\ convPc' \in {"innerCatch", "outerCatch", "rejected"}
        /\ (InCatch /\ error.name = "MarkdownConversionError") => error' = error
        /\ (InCatch /\ error.name # "MarkdownConversionError") =>
              /\ error'.name = "MarkdownConversionError"
              /\ error'.originalError = <<error>> ]_vars

-----------------------------------------------------------------------------
(* Properties of the style options (specification SpecStyle)                *)

\* the font options that defaultFont fills
FilledFonts ==
    {"headingFont", "blockquoteFont", "listItemFont", "paragraphFont", "tocFont"}

\* the first option that is set among the per-level font, the general
\* heading font and the default font
FirstSetFont(st, lvl) ==
    IF st.headingNFont[lvl] # Unset THEN st.headingNFont[lvl]
    ELSE IF st.headingFont # Unset THEN st.headingFont
    ELSE IF st.defaultFont # Unset THEN st.defaultFont
    ELSE Unset

\* C18: the heading font is the per-level font, else the general
\* headingFont, else defaultFont, else unset; the defaultFont fallback of
\* modelToDocx fills exactly the unset font options among heading,
\* blockquote, list item, paragraph and TOC and never replaces a configured
\* one; with defaultFont "Consolas" and headingFont "Trebuchet" a heading
\* without a per-level font uses "Trebuchet".
C18_FontResolution ==
    [][ /\ stylePc = "modelToDocx" =>
              /\ \A f \in FilledFonts :
                    style'[f] = IF style[f] # Unset THEN style[f] ELSE style.defaultFont
              /\ style'.headingNFont = style.headingNFont
              /\ style'.defaultFont = style.defaultFont
        /\ stylePc = "processHeading" =>
              /\ headingStyle'.font = FirstSetFont(style, headingLevel)
              /\ ( /\ style.defaultFont = "Consolas"
                   /\ style.headingFont = "Trebuchet"
                   /\ style.headingNFont[headingLevel] = Unset )
                    => headingStyle'.font = "Trebuchet" ]_vars

\* the configuration of the font test, after a conversion
C18_Witness ==
    /\ stylePc = "done"
    /\ style.defaultFont = "Consolas" /\ style.headingFont = "Trebuchet"
    /\ style.headingNFont[headingLevel] = Unset
    /\ style.tocFont = "Consolas"
    /\ headingStyle.font = "Trebuchet"

\* the values of the alignment names
AlignmentValue ==
    [n \in {"LEFT", "CENTER", "RIGHT", "JUSTIFIED"} |->
        CASE n = "LEFT" -> "left" [] n = "CENTER" -> "center"
          [] n = "RIGHT" -> "right" [] n = "JUSTIFIED" -> "both"]

\* C19: for every heading level 1..5 the heading size is the per-level size
\* when it is configured, otherwise titleSize - (level - 1) * 4 for a level
\* above 1 and titleSize for level 1; the alignment is the per-level
\* alignment when configured, otherwise the general headingAlignment,
\* otherwise unset.
C19_SizeAndAlignment ==
    stylePc = "done" =>
        /\ headingStyle.size =
              IF style.headingNSize[headingLevel] # Undefined
              THEN style.headingNSize[headingLevel]
              ELSE IF headingLevel = 1 THEN style.titleSize
              ELSE style.titleSize - (headingLevel - 1) * 4
        /\ headingStyle.alignment =
              IF style.headingNAlignment[headingLevel] # Unset
              THEN AlignmentValue[style.headingNAlignment[headingLevel]]
              ELSE IF style.headingAlignment # Unset
              THEN AlignmentValue[style.headingAlignment]
              ELSE Unset

\* a level 5 heading with no per-level options under titleSize 32
C19_Witness ==
    /\ stylePc = "done"
    /\ headingLevel = 5
    /\ style.titleSize = 32
    /\ style.headingNSize[5] = Undefined /\ style.headingNAlignment[5] = Unset
    /\ style.headingAlignment = "CENTER"
    /\ headingStyle.size = 16 /\ headingStyle.alignment = "center"

-----------------------------------------------------------------------------
(* Link recognition in processFormattedText (specification Spec)           *)

\* the scan of processFormattedText stands on a "[" outside inline code
AtBracket ==
    /\ pc = "scan" /\ variant = "body"
    /\ scan.j < Len(line)
    /\ ~scan.isInlineCode
    /\ At(line, scan.j) = "["

Least(S) == CHOOSE k \in S : \A m \in S : k <= m

ParensFrom(ln, from) == {k \in from..(Len(ln) - 1) : At(ln, k) = ")"}

\* the first unescaped "]" after position j is followed at once by "(" and
\* a ")" comes later
LinkShape(ln, j) ==
    LET cb == FindCloseBracket(ln, j + 1)
    IN  /\ cb > j
        /\ cb + 1 < Len(ln)
        /\ At(ln, cb + 1) = "("
        /\ ParensFrom(ln, cb + 2) # {}

\* "[", "](" and ")" stand at positions j, cb and cp of the line
Construct(ln, j, cb, cp) ==
    /\ j < cb /\ cb + 1 < cp /\ cp < Len(ln)
    /\ At(ln, j) = "[" /\ At(ln, cb) = "]" /\ At(ln, cb + 1) = "(" /\ At(ln, cp) = ")"

TextHoldsBracket(ln, j, cb) ==
    \E k \in (j + 1)..(cb - 1) : At(ln, k) = "]" /\ At(ln, k - 1) # "\\"

UrlHoldsParen(ln, cb, cp) ==
    \E k \in (cb + 2)..(cp - 1) : At(ln, k) = ")"

\* C20 (as stated): a "[" outside inline code starts a link only if the
\* first unescaped "]" after it is immediately followed by "(" and a ")"
\* occurs later; and a "[text](url)" whose text holds a literal "]" or whose
\* url holds a ")" is not taken as a link at its "[".
C20_NotALinkAtAll ==
    AtBracket =>
        /\ Rule(line, scan, variant) = "link" => LinkShape(line, scan.j)
        /\ (\E cb, cp \in 0..(Len(line) - 1) :
                /\ Construct(line, scan.j, cb, cp)
                /\ TextHoldsBracket(line, scan.j, cb) \/ UrlHoldsParen(line, cb, cp))
           => Rule(line, scan, variant) # "link"

\* C20 (amended): a "[" reached outside inline code starts a link exactly
\* when the first unescaped "]" after it is immediately followed by "(" and
\* a ")" occurs later. The pending text is flushed, the link text is what
\* lies between the "[" and that "]", the url is what lies between the "("
\* and the first ")" after it, and the scan resumes after that ")": a url
\* holding a ")" is cut there and the rest of it is scanned as text. In every
\* other case the "[" is added to the pending text and no run is emitted.
C20_FirstBracketFirstParen ==
    [][AtBracket =>
        IF LinkShape(line, scan.j)
        THEN LET cb == FindCloseBracket(line, scan.j + 1)
                 cp == Least(ParensFrom(line, cb + 2))
             IN  /\ scan'.textRuns =
                        Append(Flush(scan),
                               ExternalHyperlink(Substring(line, scan.j + 1, cb),
                                                 scan.isBold, scan.isItalic,
                                                 Substring(line, cb + 2, cp)))
                 /\ scan'.currentText = <<>>
                 /\ scan'.j = cp + 1
        ELSE /\ scan'.textRuns = scan.textRuns
             /\ scan'.currentText = Append(scan.currentText, "[")
             /\ scan'.j = scan.j + 1]_vars

\* "[t](u(v))" gave a link to "u(v" followed by the text ")"
C20_Witness ==
    /\ pc = "done" /\ variant = "body"
    /\ line = SampleParenUrl
    /\ scan.textRuns = <<ExternalHyperlink(<<"t">>, FALSE, FALSE, <<"u", "(", "v">>),
                         TextRun(<<")">>, FALSE, FALSE)>>

-----------------------------------------------------------------------------
(* Inline code regions of processFormattedText (specification Spec)        *)

\* the scan of processFormattedText stands inside an inline-code region
InsideCode ==
    /\ pc = "scan" /\ variant = "body"
    /\ scan.isInlineCode
    /\ scan.j < Len(line)

\* C21: inside an inline-code region only the closing backtick and plain
\* accumulation act: no escape, link or emphasis rule fires, the bold and
\* italic flags stay as they are, every character before the closing
\* backtick is appended as it stands, and the code run emitted at the closing
\* backtick holds exactly the characters since the opening backtick.
C21_CodeIsLiteral ==
    [][InsideCode =>
        /\ Rule(line, scan, variant) \in {"codeClose", "codeText"}
        /\ scan'.isBold = scan.isBold /\ scan'.isItalic = scan.isItalic
        /\ At(line, scan.j) # BT =>
              /\ scan'.currentText = Append(scan.currentText, At(line, scan.j))
              /\ scan'.j = scan.j + 1
        /\ At(line, scan.j) = BT =>
              LET n == Len(scan.currentText)
              IN  /\ scan.j - n - 1 >= 0
                  /\ At(line, scan.j - n - 1) = BT
                  /\ scan.currentText = Substring(line, scan.j - n, scan.j)
                  /\ n > 0 => /\ Len(scan'.textRuns) = Len(scan.textRuns) + 1
                              /\ scan'.textRuns[Len(scan'.textRuns)] =
                                    processInlineCode(Substring(line, scan.j - n, scan.j))]_vars

-----------------------------------------------------------------------------
(* The triple marker (specification Spec, both variants)                   *)

\* C22: after a "***" marker is processed bold and italic are in the same
\* state: both on when neither was active before the marker, both off when
\* at least one of them was.
C22_TripleSameState ==
    [][InLoop("triple") =>
        /\ scan'.isBold = scan'.isItalic
        /\ scan'.isBold = (~scan.isBold /\ ~scan.isItalic)]_vars

-----------------------------------------------------------------------------
(* The kinds of run of processFormattedText (specification Spec)           *)

RunKinds == {"text", "code", "link"}

\* C23 (as stated): every run of processFormattedText is a text run, a code
\* run or a link run, and every code run and every link run has
\* bold = italic = false.
C23_FlagsNeverCombine ==
    variant = "body" =>
        \A i \in 1..Len(scan.textRuns) :
            LET r == scan.textRuns[i]
            IN  /\ r.kind \in RunKinds
                /\ r.kind \in {"code", "link"} => ~r.bold /\ ~r.italic

\* C23 (amended): every run pushed by processFormattedText is a text run, a
\* code run or a link run. A text run carries the bold and italic flags and
\* no link; a code run has bold = italic = false, also inside an open bold
\* or italic region; a link run carries the bold and italic flags in force at
\* its "[".
C23_RunKinds ==
    [][(pc = "scan" /\ variant = "body" /\ scan.j < Len(line)) =>
        /\ Len(scan'.textRuns) >= Len(scan.textRuns)
        /\ \A i \in 1..Len(scan'.textRuns) :
              LET r == scan'.textRuns[i]
              IN  IF i <= Len(scan.textRuns) THEN r = scan.textRuns[i]
                  ELSE /\ r.kind \in RunKinds
                       /\ r.kind = "text" => r.link = <<>>
                       /\ r.kind = "code" => ~r.bold /\ ~r.italic /\ r.link = <<>>
                       /\ r.kind = "link" =>
                             /\ r.bold = scan.isBold /\ r.italic = scan.isItalic
                             /\ At(line, scan.j) = "["]_vars

\* "**`c`[t](u)**" gave a code run without flags and a bold link run
C23_Witness ==
    /\ pc = "done" /\ variant = "body"
    /\ line = SampleBoldCodeLink
    /\ Len(scan.textRuns) = 2
    /\ scan.textRuns[1].kind = "code" /\ ~scan.textRuns[1].bold
    /\ scan.textRuns[2].kind = "link" /\ scan.textRuns[2].bold
    /\ ~scan.textRuns[2].italic

-----------------------------------------------------------------------------
(* The heading variant against the body variant (specification Spec)       *)

Holds(ln, c) == \E i \in 1..Len(ln) : ln[i] = c

\* C24: for every line without "[" the heading variant and the body variant
\* return the same sequence of runs: same values, same flags, same split
\* points.
C24_HeadingAsBody ==
    (pc = "done" /\ ~Holds(line, "[")) =>
        /\ scan.textRuns = processFormattedText(line)
        /\ scan.textRuns = processFormattedTextForHeading(line)

-----------------------------------------------------------------------------
(* The table of contents in the final document (specification SpecWalk)    *)

IsPlaceholder(b) == b.type = "tocPlaceholder"

Kept(blocks) == SelectSeq(blocks, LAMBDA b : ~IsPlaceholder(b))

PlaceholderAt == {i \in 1..Len(children) : IsPlaceholder(children[i])}

TocTitleAt == {i \in 1..Len(finalDocChildren) : finalDocChildren[i].type = "tocTitle"}

\* C25: the table of contents is the title followed by one entry per heading
\* in the order of the heading list, and nothing without headings; it stands
\* in the final document at most once, in the place of the first
\* placeholder; every other placeholder, and every placeholder of a document
\* without headings, gives no output; the other blocks keep their order.
C25_TocAtMostOnce ==
    docPc = "built" =>
        /\ IF headings = <<>> THEN tocContent = <<>>
           ELSE /\ Len(tocContent) = Len(headings) + 1
                /\ tocContent[1].type = "tocTitle"
                /\ \A i \in 1..Len(headings) :
                      /\ tocContent[i + 1].type = "tocEntry"
                      /\ tocContent[i + 1].bookmarkId = headings[i].bookmarkId
                      /\ tocContent[i + 1].runs[1].value = headings[i].text
        /\ IF PlaceholderAt = {} \/ headings = <<>>
           THEN /\ finalDocChildren = Kept(children)
                /\ TocTitleAt = {}
           ELSE LET p == Least(PlaceholderAt)
                IN  /\ finalDocChildren =
                          SubSeq(children, 1, p - 1) \o tocContent
                          \o Kept(SubSeq(children, p + 1, Len(children)))
                    /\ TocTitleAt = {p}
        /\ \A i \in 1..Len(finalDocChildren) : ~IsPlaceholder(finalDocChildren[i])

\* [TOC], # A, a, [TOC]: the title, the entry, the heading, the paragraph
C25_Witness ==
    /\ docPc = "built"
    /\ model = SampleTwoPlaceholders
    /\ Cardinality(PlaceholderAt) = 2
    /\ Len(headings) = 1
    /\ Len(finalDocChildren) = 4
    /\ finalDocChildren[1].type = "tocTitle"
    /\ finalDocChildren[2].type = "tocEntry"
    /\ finalDocChildren[3].type = "heading"
    /\ finalDocChildren[4].type = "paragraph"

-----------------------------------------------------------------------------
(* The caller's style object (specification SpecStyle)                     *)

\* C26: no step of a conversion changes a field of the style object that the
\* caller passed in: after modelToDocx has returned, the object is as it was
\* before the call.
C26_StyleUnchanged ==
    [][style' = style]_vars

-----------------------------------------------------------------------------
(* Numbered paragraphs and numbering definitions (specification SpecWalk)  *)

\* the numbering definition with reference ref defines the level lvl
Registered(ref, lvl) ==
    \E i \in 1..Len(numberingConfigs) :
        /\ numberingConfigs[i].reference = ref
        /\ lvl \in numberingConfigs[i].levels

\* C27: every numbered-list paragraph of the output refers to a numbering
\* definition that parseToDocxOptions registers: its reference is
\* numbered-list-k with 1 <= k <= maxSequenceId and its level is a level
\* defined for that reference.
C27_NumberingRegistered ==
    docPc = "built" =>
        \A i \in 1..Len(children) :
            children[i].numbered =>
                /\ \E k \in 1..maxSequenceId :
                      children[i].reference = NumberingReference(k)
                /\ Registered(children[i].reference, children[i].level)

-----------------------------------------------------------------------------
(* Hints against the output dimensions (specification SpecImage)           *)

\* C28: whenever the fragment supplies a (non-zero) width hint the width of
\* the image run is that hint, and whenever it supplies a (non-zero) height
\* hint the height of the image run is that hint, whatever is known about
\* the intrinsic dimensions.
C28_HintsAlwaysWin ==
    (imgPc = "done" /\ paragraph.type = "image") =>
        /\ Truthy(widthHint) => paragraph.width = widthHint
        /\ Truthy(heightHint) => paragraph.height = heightHint

-----------------------------------------------------------------------------
(* The heading size under an accepted titleSize (specification SpecStyle)  *)

\* the titleSize values that validateInput accepts
MinTitleSize == 8

MaxTitleSize == 72

\* C29: for every titleSize of 8 to 72 and every heading level 1 to 5
\* without a per-level size, the size given to the heading is positive.
C29_PositiveHeadingSize ==
    (/\ stylePc = "done"
     /\ style.titleSize \in MinTitleSize..MaxTitleSize
     /\ style.headingNSize[headingLevel] = Undefined)
        => headingStyle.size > 0

-----------------------------------------------------------------------------
(* Termination of the JPEG scan (specification SpecSniffLive)              *)

\* an iteration of the JPEG loop is about to run its body
InIteration == sniffPc = "jpeg" /\ JpegInLoop(bytes, offset)

\* the offsets the body of an iteration reads
ReadOffsets ==
    IF Byte(bytes, offset) # 255 THEN {offset}
    ELSE IF IsSof(Byte(bytes, offset + 1))
    THEN {offset + d : d \in {0, 1, 2, 3, 5, 6, 7, 8}}
    ELSE {offset + d : d \in {0, 1, 2, 3}}

\* C30: the JPEG scan terminates on every buffer, also when a segment
\* declares length 0 or a length that points past the end of the buffer:
\* the offset strictly increases on every iteration that continues the loop,
\* every byte an iteration reads lies inside the buffer, and the scan ends.
C30_JpegScanTerminates ==
    /\ [][(sniffPc = "jpeg" /\ sniffPc' = "jpeg") => offset' > offset]_vars
    /\ [](InIteration => \A o \in ReadOffsets : 0 <= o /\ o < Len(bytes))
    /\ <>(sniffPc = "done")

\* FF E0 FF FF: the declared length carried the offset past the end
C30_Witness ==
    /\ sniffPc = "done" /\ imageType = "jpg"
    /\ offset = 65539 /\ offset > Len(bytes)
    /\ Byte(bytes, 2) = 255 /\ readUint16BE(bytes, 4) = 65535
    /\ intrinsic.width = NoValue

=============================================================================
